---- MODULE Spec2Model ----
(***************************************************************************)
(* Model of src/src/config/redis.js: the cache, pub/sub and list helpers   *)
(* layered on one shared ioredis client (redis.js:25).                      *)
(*                                                                         *)
(* Every helper is an async function.  Its synchronous prefix (up to the   *)
(* first await) is one action, "<op>Call"; the transport command it issues *)
(* is appended to `wire`, the FIFO of commands outstanding on the single   *)
(* connection; the store answers the head of `wire`, and the continuation  *)
(* after the await is the action "<op>Reply" / "<op>Fail".                 *)
(***************************************************************************)
EXTENDS Integers, Sequences, FiniteSets, TLC

MaxCalls == 3        \* helper calls started in one behaviour
MaxPub == 1          \* messages published to channels in one behaviour
MaxTtl == 2          \* largest ttl argument, in seconds
MaxLen == 2          \* longest array or object among the cached values
MaxExt == 1          \* values pushed to the lists by other clients
MaxWait == 1         \* largest timeout argument of a blocking pop, in seconds
MaxOps == 2          \* helper calls started in one behaviour, all helpers at hand
MaxAttempts == 41    \* reconnection attempts followed after one loss of connection
MaxSignals == 2      \* termination signals delivered to the process
MaxConns == 1        \* HTTP connections open at a time
MaxRequests == 2     \* requests made to the /health endpoint

Channels == {"c1", "c2"}
HandlerIds == {"h1", "h2"}
Msgs == {"m1"}
Keys == {"k1", "k2"}
ListKeys == {"q1", "q2"}

VARIABLES
    subscribers,   \* pubSubHelpers.subscribers: Map channel -> handler array
    calls,         \* helper calls in start order, each with its position (pc)
    wire,          \* indexes into calls: commands sent on the connection, unanswered
    serverSubs,    \* channels the store holds a subscription for on this connection
    published,     \* messages published to the store, in order
    invoked,       \* handler invocations made by this client, in order
    errlog,        \* number of logger.error calls made by the helpers
    kv,            \* the store's string keys: key -> [text, exp], exp seconds left
    now,           \* seconds elapsed at the store
    arg,           \* the value the callers of this behaviour cache
    lists,         \* the store's lists: key -> sequence of texts, left to right
    blockedFor,    \* seconds the store has held the connection in a blocking pop
    ext,           \* values pushed to the lists by other clients of the store
    status,        \* the client's connection status: ready, reconnecting or end
    attempt,       \* reconnection attempts made since the connection was lost
    delay,         \* milliseconds the client waits before its next attempt
    listening,     \* the HTTP server accepts connections
    conns,         \* HTTP connections that are open
    dbHandlers,    \* runs of the SIGINT handler of database.js:140-150, their pc
    shutdowns,     \* runs of gracefulShutdown, database.js:407-435, their pc
    quitIssued,    \* closes of the Redis connection the shutdown has issued
    exitCode,      \* the code the process exited with, -1 while it runs
    health         \* requests to /health: the health object and the status answered

pubsubVars == <<subscribers, serverSubs, published, invoked>>
cacheVars == <<kv, now, arg>>
listVars == <<lists, blockedFor, ext>>
linkVars == <<status, attempt, delay>>
procVars == <<listening, conns, dbHandlers, shutdowns, quitIssued, exitCode, health>>
helperVars == <<subscribers, calls, wire, serverSubs, published, invoked, errlog,
                kv, now, arg, lists, blockedFor, ext>>
vars == <<subscribers, calls, wire, serverSubs, published, invoked, errlog,
          kv, now, arg, lists, blockedFor, ext, status, attempt, delay,
          listening, conns, dbHandlers, shutdowns, quitIssued, exitCode, health>>

----------------------------------------------------------------------------
SeqsUpTo(S, n) == UNION {[1..m -> S] : m \in 0..n}
Distinct(ks) == \A x, y \in 1..Len(ks) : x # y => ks[x] # ks[y]
\* the sequences without repetition over a set (the keys of an object)
SeqsOf(S) == {q \in SeqsUpTo(S, Cardinality(S)) : Distinct(q)}
Range(f) == {f[x] : x \in DOMAIN f}

(* JavaScript Map, as used for the registry *)
MapHas(m, k) == k \in DOMAIN m
MapSet(m, k, v) == [x \in DOMAIN m \cup {k} |-> IF x = k THEN v ELSE m[x]]
MapDelete(m, k) == [x \in DOMAIN m \ {k} |-> m[x]]
EmptyMap == [x \in {} |-> <<>>]

(* A call record.  cmd is the transport command the call issued and sent    *)
(* counts them; t is the ttl or timeout argument, the empty set when the    *)
(* argument was omitted; txt is the serialized value; res is what the call  *)
(* returned.  born and mark are the numbers of store events (messages       *)
(* published, seconds elapsed) when the call started and when it finished;  *)
(* overlap tells that it started while another call on the same key awaited *)
(* the transport, quiet that it started with no call outstanding, and       *)
(* waiting is the blocking pop the store was holding the connection in when *)
(* the call started (0 when there was none); during holds the clearPattern  *)
(* calls whose enumeration was outstanding when the call started, and fresh *)
(* tells that the call's write created its key; down tells that the call    *)
(* started while the connection was not up, and rejected counts the         *)
(* commands of the call that the transport failed.  chs is the channel list *)
(* of a subscribeMultiple and at the position in it of the channel whose    *)
(* subscribe the call awaits.                                               *)
Stamp == Len(published) + now
TimeoutOf(i) == CHOOSE n \in calls[i].t : TRUE
\* the store holds the connection in a blocking pop: the oldest outstanding
\* command is a BRPOP or BLPOP of a list that is empty
Blocked ==
    /\ wire # <<>>
    /\ calls[Head(wire)].cmd \in {"brpop", "blpop"}
    /\ lists[calls[Head(wire)].key] = <<>>
TimedOut == TimeoutOf(Head(wire)) > 0 /\ blockedFor >= TimeoutOf(Head(wire))
NoRes == [kind |-> "none", n |-> 0]
NewCall(op, key, val, pc, sent) ==
    [op |-> op, key |-> key, val |-> val, pc |-> pc, sent |-> sent,
     cmd |-> op, t |-> {}, txt |-> <<>>, res |-> NoRes,
     born |-> Stamp, mark |-> IF pc = "await" THEN 0 ELSE Stamp,
     overlap |-> \E j \in 1..Len(calls) :
                    calls[j].pc = "await" /\ calls[j].key = key,
     quiet |-> \A j \in 1..Len(calls) : calls[j].pc # "await",
     waiting |-> IF Blocked /\ ~TimedOut THEN Head(wire) ELSE 0,
     during |-> {j \in 1..Len(calls) :
                    calls[j].pc = "await" /\ calls[j].cmd = "keys"},
     fresh |-> FALSE,
     down |-> status # "ready",
     chs |-> <<>>,
     at |-> 0,
     rejected |-> 0]

CanCall == Len(calls) < MaxCalls
Few == Len(calls) < MaxOps
Me == Len(calls) + 1
\* the connection is up and the oldest outstanding command is call i's
Oldest(i) == status = "ready" /\ wire # <<>> /\ Head(wire) = i

\* A connection with at least one channel subscription is in subscriber mode:
\* it carries only SUBSCRIBE, UNSUBSCRIBE, PING and QUIT.  The client of
\* redis.js:25 is the connection of all three helper groups.
SubscriberMode == serverSubs # {}
SubscriberCommands == {"subscribe", "unsubscribe", "subscribeMultiple", "ping", "quit"}
Accepts(i) == ~SubscriberMode \/ calls[i].cmd \in SubscriberCommands

\* the store takes up the oldest outstanding command, which is call i's
AtHead(i) == Oldest(i) /\ Accepts(i)
Finish(i, pc) == [calls EXCEPT ![i].pc = pc, ![i].mark = Stamp]
Return(i, res) == [calls EXCEPT ![i].pc = "done", ![i].mark = Stamp, ![i].res = res]

\* the transport failed a command of call i: the awaited promise rejects
Rejection(cs, i) == [cs EXCEPT ![i].rejected = @ + 1]

\* a catch block that answers false instead of throwing
ReturnFalse(i) == Return(i, [kind |-> "bool", n |-> 0])

\* the helpers' catch blocks: logger.error(...); throw err
Rethrow(i) == Finish(i, "failed")

----------------------------------------------------------------------------
(* JSON values and the codec: JSON.stringify / JSON.parse as the helpers use *)
(* them (redis.js:67, 87).  A text is a sequence of characters.  A value is  *)
(* a record: t is its type, n its number, s its characters (a string) or its *)
(* keys (an object), a its elements (an array) or its members' values.       *)

JNull == [t |-> "null", n |-> 0, s |-> <<>>, a |-> <<>>]
JTrue == [t |-> "true", n |-> 0, s |-> <<>>, a |-> <<>>]
JFalse == [t |-> "false", n |-> 0, s |-> <<>>, a |-> <<>>]
JNum(n) == [t |-> "num", n |-> n, s |-> <<>>, a |-> <<>>]
JStr(s) == [t |-> "str", n |-> 0, s |-> s, a |-> <<>>]
JArr(a) == [t |-> "arr", n |-> 0, s |-> <<>>, a |-> a]
JObj(ks, a) == [t |-> "obj", n |-> 0, s |-> ks, a |-> a]

DigitChars == <<"0", "1", "2", "3", "4", "5", "6", "7", "8", "9">>
IsDigit(ch) == \E d \in 1..Len(DigitChars) : DigitChars[d] = ch
DigitValue(ch) == (CHOOSE d \in 1..Len(DigitChars) : DigitChars[d] = ch) - 1

RECURSIVE Digits(_)
Digits(n) ==
    IF n < Len(DigitChars) THEN <<DigitChars[n + 1]>>
    ELSE Digits(n \div Len(DigitChars)) \o <<DigitChars[(n % Len(DigitChars)) + 1]>>
NumText(n) == IF n < 0 THEN <<"-">> \o Digits(-n) ELSE Digits(n)

\* a quote or a backslash inside a string is written with a backslash before it
EscapeChar(ch) == IF ch = "\"" \/ ch = "\\" THEN <<"\\", ch>> ELSE <<ch>>

RECURSIVE EscapeAll(_)
EscapeAll(s) == IF s = <<>> THEN <<>> ELSE EscapeChar(Head(s)) \o EscapeAll(Tail(s))
Quote(s) == <<"\"">> \o EscapeAll(s) \o <<"\"">>

RECURSIVE Stringify(_)
RECURSIVE StringifyElems(_)
RECURSIVE StringifyMembers(_, _)
StringifyElems(a) ==
    IF a = <<>> THEN <<>>
    ELSE Stringify(Head(a))
            \o (IF Len(a) > 1 THEN <<",">> ELSE <<>>) \o StringifyElems(Tail(a))
StringifyMembers(ks, a) ==
    IF ks = <<>> THEN <<>>
    ELSE Quote(<<Head(ks)>>) \o <<":">> \o Stringify(Head(a))
            \o (IF Len(ks) > 1 THEN <<",">> ELSE <<>>)
            \o StringifyMembers(Tail(ks), Tail(a))
\* JSON.stringify(value)
Stringify(v) ==
    CASE v.t = "null" -> <<"n", "u", "l", "l">>
      [] v.t = "true" -> <<"t", "r", "u", "e">>
      [] v.t = "false" -> <<"f", "a", "l", "s", "e">>
      [] v.t = "num" -> NumText(v.n)
      [] v.t = "str" -> Quote(v.s)
      [] v.t = "arr" -> <<"[">> \o StringifyElems(v.a) \o <<"]">>
      [] v.t = "obj" -> <<"{">> \o StringifyMembers(v.s, v.a) \o <<"}">>

\* the result of parsing a prefix of a text: the value and the text left over
Parsed(v, rest) == [ok |-> TRUE, v |-> v, rest |-> rest]
SyntaxError == [ok |-> FALSE, v |-> JNull, rest |-> <<>>]
StartsWith(txt, p) == Len(txt) >= Len(p) /\ SubSeq(txt, 1, Len(p)) = p
Drop(txt, k) == SubSeq(txt, k + 1, Len(txt))

RECURSIVE ParseDigits(_, _)
ParseDigits(txt, acc) ==
    IF txt # <<>> /\ IsDigit(Head(txt))
    THEN ParseDigits(Tail(txt), acc * Len(DigitChars) + DigitValue(Head(txt)))
    ELSE Parsed(JNum(acc), txt)
\* an unsigned number: a single 0, or a digit 1-9 followed by digits
ParseUnsigned(txt) ==
    IF txt = <<>> \/ ~IsDigit(Head(txt)) THEN SyntaxError
    ELSE IF Head(txt) = "0" THEN Parsed(JNum(0), Tail(txt))
    ELSE ParseDigits(txt, 0)
ParseNumber(txt) ==
    IF txt # <<>> /\ Head(txt) = "-"
    THEN LET r == ParseUnsigned(Tail(txt))
         IN  IF r.ok THEN Parsed(JNum(-r.v.n), r.rest) ELSE SyntaxError
    ELSE ParseUnsigned(txt)

\* the characters of a string up to its closing quote; txt follows the opening one
RECURSIVE ParseChars(_, _)
ParseChars(txt, acc) ==
    IF txt = <<>> THEN SyntaxError
    ELSE IF Head(txt) = "\"" THEN Parsed(JStr(acc), Tail(txt))
    ELSE IF Head(txt) = "\\"
         THEN IF Len(txt) >= 2 /\ (txt[2] = "\"" \/ txt[2] = "\\")
              THEN ParseChars(Drop(txt, 2), Append(acc, txt[2]))
              ELSE SyntaxError
    ELSE ParseChars(Tail(txt), Append(acc, Head(txt)))

RECURSIVE ParseValue(_)
RECURSIVE ParseElems(_, _)
RECURSIVE ParseMembers(_, _, _)
\* the elements of an array after its first one; txt starts at "," or "]"
ParseElems(txt, acc) ==
    IF txt = <<>> THEN SyntaxError
    ELSE IF Head(txt) = "]" THEN Parsed(JArr(acc), Tail(txt))
    ELSE IF Head(txt) = ","
         THEN LET r == ParseValue(Tail(txt))
              IN  IF r.ok THEN ParseElems(r.rest, Append(acc, r.v)) ELSE SyntaxError
    ELSE SyntaxError
\* one member "key":value of an object, then the members after it
ParseMembers(txt, ks, acc) ==
    IF txt = <<>> \/ Head(txt) # "\"" THEN SyntaxError
    ELSE LET k == ParseChars(Tail(txt), <<>>)
         IN  IF ~k.ok \/ Len(k.v.s) # 1 \/ k.rest = <<>> \/ Head(k.rest) # ":"
             THEN SyntaxError
             ELSE LET r == ParseValue(Tail(k.rest))
                  IN  IF ~r.ok \/ r.rest = <<>> THEN SyntaxError
                      ELSE IF Head(r.rest) = "}"
                           THEN Parsed(JObj(Append(ks, k.v.s[1]), Append(acc, r.v)),
                                       Tail(r.rest))
                      ELSE IF Head(r.rest) = ","
                           THEN ParseMembers(Tail(r.rest), Append(ks, k.v.s[1]),
                                             Append(acc, r.v))
                      ELSE SyntaxError
ParseValue(txt) ==
    IF txt = <<>> THEN SyntaxError
    ELSE IF StartsWith(txt, <<"n", "u", "l", "l">>) THEN Parsed(JNull, Drop(txt, 4))
    ELSE IF StartsWith(txt, <<"t", "r", "u", "e">>) THEN Parsed(JTrue, Drop(txt, 4))
    ELSE IF StartsWith(txt, <<"f", "a", "l", "s", "e">>) THEN Parsed(JFalse, Drop(txt, 5))
    ELSE IF Head(txt) = "-" \/ IsDigit(Head(txt)) THEN ParseNumber(txt)
    ELSE IF Head(txt) = "\"" THEN ParseChars(Tail(txt), <<>>)
    ELSE IF Head(txt) = "["
         THEN IF Len(txt) >= 2 /\ txt[2] = "]" THEN Parsed(JArr(<<>>), Drop(txt, 2))
              ELSE LET r == ParseValue(Tail(txt))
                   IN  IF r.ok THEN ParseElems(r.rest, <<r.v>>) ELSE SyntaxError
    ELSE IF Head(txt) = "{"
         THEN IF Len(txt) >= 2 /\ txt[2] = "}" THEN Parsed(JObj(<<>>, <<>>), Drop(txt, 2))
              ELSE ParseMembers(Tail(txt), <<>>, <<>>)
    ELSE SyntaxError

\* JSON.parse(text): the whole text must be one value
Parse(txt) ==
    LET r == ParseValue(txt)
    IN  IF r.ok /\ r.rest = <<>> THEN r ELSE SyntaxError

\* JavaScript truthiness of a string the store returned (a miss is null)
Miss == <<"miss">>
TruthyText(raw) == raw # Miss /\ raw # <<>>

----------------------------------------------------------------------------
(* pubSubHelpers.subscribe, redis.js:233-245 *)

\* line 236: this.subscribers.set(channel, [])
CreateRecord(reg, c) == MapSet(reg, c, <<>>)

\* a handler array that is replaced instead of grown
ReplaceHandlers(reg, c, h) == [reg EXCEPT ![c] = <<h>>]

\* line 240: this.subscribers.get(channel).push(handler)
PushHandler(reg, c, h) == [reg EXCEPT ![c] = Append(@, h)]

\* lines 234-237, or 235 and 240 when the record exists: no await, the call returns
SubscribeCall(c, h) ==
    /\ CanCall
    /\ IF ~MapHas(subscribers, c)
       THEN /\ subscribers' = CreateRecord(subscribers, c)
            /\ calls' = Append(calls, NewCall("subscribe", c, h, "await", 1))
            /\ wire' = Append(wire, Me)
       ELSE /\ subscribers' = PushHandler(subscribers, c, h)
            /\ calls' = Append(calls, NewCall("subscribe", c, h, "done", 0))
            /\ wire' = wire
    /\ UNCHANGED <<serverSubs, published, invoked, errlog, cacheVars, listVars,
                   linkVars, procVars>>

\* redis.subscribe resolved: lines 238-240.  get(channel) is undefined when the
\* record was deleted during the await; push then throws a TypeError, which the
\* catch of lines 241-244 logs and rethrows.
SubscribeReply(i) ==
    /\ AtHead(i)
    /\ calls[i].op = "subscribe"
    /\ wire' = Tail(wire)
    /\ serverSubs' = serverSubs \cup {calls[i].key}
    /\ IF MapHas(subscribers, calls[i].key)
       THEN /\ subscribers' = PushHandler(subscribers, calls[i].key, calls[i].val)
            /\ calls' = Finish(i, "done")
            /\ errlog' = errlog
       ELSE /\ subscribers' = subscribers
            /\ calls' = Finish(i, "threw")
            /\ errlog' = errlog + 1
    /\ UNCHANGED <<published, invoked, cacheVars, listVars, linkVars, procVars>>

\* redis.subscribe rejected: lines 241-244
SubscribeFail(i) ==
    /\ AtHead(i)
    /\ calls[i].op = "subscribe"
    /\ wire' = Tail(wire)
    /\ calls' = Rejection(Rethrow(i), i)
    /\ errlog' = errlog + 1
    /\ UNCHANGED <<subscribers, serverSubs, published, invoked, cacheVars, listVars,
                   linkVars, procVars>>

----------------------------------------------------------------------------
(* pubSubHelpers.unsubscribe, redis.js:252-263 *)

\* an unsubscribe that leaves the record in place
KeepRecord(reg, c) == reg

\* line 255: this.subscribers.delete(channel)
DeleteRecord(reg, c) == MapDelete(reg, c)

\* lines 253-256
UnsubscribeCall(c) ==
    /\ CanCall
    /\ IF MapHas(subscribers, c)
       THEN /\ subscribers' = DeleteRecord(subscribers, c)
            /\ calls' = Append(calls, NewCall("unsubscribe", c, "-", "await", 1))
            /\ wire' = Append(wire, Me)
       ELSE /\ subscribers' = subscribers
            /\ calls' = Append(calls, NewCall("unsubscribe", c, "-", "done", 0))
            /\ wire' = wire
    /\ UNCHANGED <<serverSubs, published, invoked, errlog, cacheVars, listVars,
                   linkVars, procVars>>

\* redis.unsubscribe resolved: line 257
UnsubscribeReply(i) ==
    /\ AtHead(i)
    /\ calls[i].op = "unsubscribe"
    /\ wire' = Tail(wire)
    /\ serverSubs' = serverSubs \ {calls[i].key}
    /\ calls' = Finish(i, "done")
    /\ UNCHANGED <<subscribers, published, invoked, errlog, cacheVars, listVars,
                   linkVars, procVars>>

\* redis.unsubscribe rejected: lines 259-262
UnsubscribeFail(i) ==
    /\ AtHead(i)
    /\ calls[i].op = "unsubscribe"
    /\ wire' = Tail(wire)
    /\ calls' = Rejection(Rethrow(i), i)
    /\ errlog' = errlog + 1
    /\ UNCHANGED <<subscribers, serverSubs, published, invoked, cacheVars, listVars,
                   linkVars, procVars>>

\* lines 302-304
getSubscribedChannels == DOMAIN subscribers

----------------------------------------------------------------------------
(* pubSubHelpers.subscribeMultiple, redis.js:287-296 *)

\* the channel lists callers pass
ListChannels == {"c1", "c2", "c3"}
ChannelLists == SeqsOf(ListChannels) \cup {<<"c1", "c1">>}

\* a loop that ends after its first channel
StopAfterFirst(reg, chs, h, at) == [reg |-> reg, at |-> Len(chs) + 1]

\* lines 289-291 from the channel at position at on: this.subscribe(channel,
\* handler) pushes the handler and returns for a channel that has a record
\* (lines 235 and 240), and the loop goes on; for the first channel without a
\* record it creates one (line 236) and awaits redis.subscribe.  The result is
\* the registry and the position the loop stopped at, past the end when the
\* loop is over.
RECURSIVE LoopFrom(_, _, _, _)
LoopFrom(reg, chs, h, at) ==
    IF at > Len(chs) THEN [reg |-> reg, at |-> at]
    ELSE IF MapHas(reg, chs[at])
         THEN LoopFrom(PushHandler(reg, chs[at], h), chs, h, at + 1)
    ELSE [reg |-> CreateRecord(reg, chs[at]), at |-> at]

\* the call after the loop stopped at position r.at
Looping(c, r) ==
    IF r.at > Len(c.chs)
    THEN [c EXCEPT !.pc = "done", !.mark = Stamp, !.at = r.at]
    ELSE [c EXCEPT !.pc = "await", !.at = r.at, !.key = c.chs[r.at],
                   !.sent = @ + 1]

\* lines 288-291, up to the first await of the transport
SubscribeMultipleCall(chs, h) ==
    /\ CanCall
    /\ LET c == [NewCall("subscribeMultiple", "-", h, "await", 0) EXCEPT !.chs = chs]
           r == LoopFrom(subscribers, chs, h, 1)
       IN  /\ subscribers' = r.reg
           /\ calls' = Append(calls, Looping(c, r))
           /\ wire' = IF r.at > Len(chs) THEN wire ELSE Append(wire, Me)
    /\ UNCHANGED <<serverSubs, published, invoked, errlog, cacheVars, listVars,
                   linkVars, procVars>>

\* redis.subscribe resolved (line 238): line 240 pushes the handler and the
\* loop goes on; when the record was deleted during the await, push throws a
\* TypeError, which lines 241-244 and then 292-295 log and rethrow
SubscribeMultipleReply(i) ==
    /\ AtHead(i)
    /\ calls[i].op = "subscribeMultiple"
    /\ serverSubs' = serverSubs \cup {calls[i].key}
    /\ IF MapHas(subscribers, calls[i].key)
       THEN LET r == LoopFrom(PushHandler(subscribers, calls[i].key, calls[i].val),
                              calls[i].chs, calls[i].val, calls[i].at + 1)
            IN  /\ subscribers' = r.reg
                /\ calls' = [calls EXCEPT ![i] = Looping(@, r)]
                /\ wire' = IF r.at > Len(calls[i].chs) THEN Tail(wire)
                           ELSE Append(Tail(wire), i)
                /\ errlog' = errlog
       ELSE /\ subscribers' = subscribers
            /\ calls' = Finish(i, "threw")
            /\ wire' = Tail(wire)
            /\ errlog' = errlog + 2
    /\ UNCHANGED <<published, invoked, cacheVars, listVars, linkVars, procVars>>

\* redis.subscribe rejected: lines 241-244 log and rethrow, the loop ends, and
\* lines 292-295 log and rethrow
SubscribeMultipleFail(i) ==
    /\ AtHead(i)
    /\ calls[i].op = "subscribeMultiple"
    /\ wire' = Tail(wire)
    /\ calls' = Rejection(Rethrow(i), i)
    /\ errlog' = errlog + 2
    /\ UNCHANGED <<subscribers, serverSubs, published, invoked, cacheVars, listVars,
                   linkVars, procVars>>

----------------------------------------------------------------------------
(* Message delivery.  The client registers listeners for 'connect', 'ready', *)
(* 'error', 'close', 'reconnecting' and 'end' (redis.js:30-52) and for no    *)
(* other event; no code of the repository reads pubSubHelpers.subscribers to *)
(* call a handler.                                                           *)

\* the handler invocations the client's listeners make for a 'message' event
OnMessage(c, m, n) == <<>>

HandlersOf(c) == IF MapHas(subscribers, c) THEN subscribers[c] ELSE <<>>

\* A message is published to channel c of the store (by any client); the store
\* pushes it to this connection when the connection is subscribed to c.
Publish(c, m) ==
    /\ Len(published) < MaxPub
    /\ published' = Append(published,
           [ch |-> c, msg |-> m, emitted |-> c \in serverSubs,
            handlers |-> HandlersOf(c)])
    /\ invoked' = IF c \in serverSubs
                  THEN invoked \o OnMessage(c, m, Len(published) + 1)
                  ELSE invoked
    /\ UNCHANGED <<subscribers, calls, wire, serverSubs, errlog, cacheVars, listVars,
                   linkVars, procVars>>

----------------------------------------------------------------------------
(* cacheHelpers.set / get / getTTL, redis.js:65-92 and 145-152 *)

\* the ttl arguments callers pass: omitted (the default null), or a number
TtlArgs == {{}} \cup {{n} : n \in -1..MaxTtl}
TtlOf(t) == CHOOSE n \in t : TRUE

\* line 68: if (ttl), for ttl a number or null
TruthyTtl(t) == t # {} /\ t # {0}

\* lines 66-71, up to the await
SetCall(k, v, t) ==
    /\ CanCall
    /\ calls' = Append(calls,
           [NewCall("set", k, v, "await", 1)
               EXCEPT !.t = t, !.txt = Stringify(v),
                      !.cmd = IF TruthyTtl(t) THEN "setex" ELSE "set"])
    /\ wire' = Append(wire, Me)
    /\ UNCHANGED <<pubsubVars, errlog, cacheVars, listVars, linkVars, procVars>>

\* SET key text: the key is stored without expiration (line 71)
SetReply(i) ==
    /\ AtHead(i)
    /\ calls[i].cmd = "set"
    /\ wire' = Tail(wire)
    /\ kv' = MapSet(kv, calls[i].key, [text |-> calls[i].txt, exp |-> -1])
    /\ calls' = [Return(i, [kind |-> "ok", n |-> 0])
                    EXCEPT ![i].fresh = ~MapHas(kv, calls[i].key)]
    /\ UNCHANGED <<pubsubVars, errlog, now, arg, listVars, linkVars, procVars>>

\* SETEX key seconds text with seconds > 0 (line 69)
SetexReply(i) ==
    /\ AtHead(i)
    /\ calls[i].cmd = "setex"
    /\ TtlOf(calls[i].t) > 0
    /\ wire' = Tail(wire)
    /\ kv' = MapSet(kv, calls[i].key,
                    [text |-> calls[i].txt, exp |-> TtlOf(calls[i].t)])
    /\ calls' = [Return(i, [kind |-> "ok", n |-> 0])
                    EXCEPT ![i].fresh = ~MapHas(kv, calls[i].key)]
    /\ UNCHANGED <<pubsubVars, errlog, now, arg, listVars, linkVars, procVars>>

\* SETEX with seconds <= 0: the store answers "invalid expire time" and stores
\* nothing; lines 72-75 log and rethrow
SetexRejected(i) ==
    /\ AtHead(i)
    /\ calls[i].cmd = "setex"
    /\ TtlOf(calls[i].t) <= 0
    /\ wire' = Tail(wire)
    /\ calls' = Rejection(Rethrow(i), i)
    /\ errlog' = errlog + 1
    /\ UNCHANGED <<pubsubVars, cacheVars, listVars, linkVars, procVars>>

\* line 85, up to the await
GetCall(k) ==
    /\ CanCall
    /\ calls' = Append(calls, NewCall("get", k, JNull, "await", 1))
    /\ wire' = Append(wire, Me)
    /\ UNCHANGED <<pubsubVars, errlog, cacheVars, listVars, linkVars, procVars>>

\* GET key: the stored text, or nil
RawGet(k) == IF MapHas(kv, k) THEN kv[k].text ELSE Miss

\* a get that also takes the text of the number 0 for a miss
GetResultZeroFalsy(raw) ==
    IF ~TruthyText(raw) \/ raw = <<"0">> THEN [ok |-> TRUE, v |-> JNull]
    ELSE Parse(raw)

\* lines 86-87: if (!value) return null; return JSON.parse(value)
GetResult(raw) ==
    IF ~TruthyText(raw) THEN [ok |-> TRUE, v |-> JNull] ELSE Parse(raw)

\* the continuation of get: lines 86-87, or 88-91 when JSON.parse throws
GetReply(i) ==
    /\ AtHead(i)
    /\ calls[i].op = "get"
    /\ wire' = Tail(wire)
    /\ LET r == GetResult(RawGet(calls[i].key))
       IN  IF r.ok
           THEN /\ calls' = Return(i, [kind |-> "value", n |-> 0, v |-> r.v])
                /\ errlog' = errlog
           ELSE /\ calls' = Finish(i, "threw")
                /\ errlog' = errlog + 1
    /\ UNCHANGED <<pubsubVars, cacheVars, listVars, linkVars, procVars>>

\* line 147, up to the await
GetTTLCall(k) ==
    /\ CanCall
    /\ calls' = Append(calls, NewCall("getTTL", k, JNull, "await", 1))
    /\ wire' = Append(wire, Me)
    /\ UNCHANGED <<pubsubVars, errlog, cacheVars, listVars, linkVars, procVars>>

\* TTL key: -2 when the key is absent, -1 when it has no expiration, else the
\* seconds left
StoreTtl(k) == IF MapHas(kv, k) THEN kv[k].exp ELSE -2

\* line 147: the store's answer is returned as it is
GetTTLReply(i) ==
    /\ AtHead(i)
    /\ calls[i].op = "getTTL"
    /\ wire' = Tail(wire)
    /\ calls' = Return(i, [kind |-> "int", n |-> StoreTtl(calls[i].key)])
    /\ UNCHANGED <<pubsubVars, errlog, cacheVars, listVars, linkVars, procVars>>

\* a second passes at the store: expirations count down, keys at 0 are removed
Tick ==
    /\ \E k \in DOMAIN kv : kv[k].exp > 0
    /\ now' = now + 1
    /\ kv' = [k \in {x \in DOMAIN kv : kv[x].exp # 1} |->
                 IF kv[k].exp > 0 THEN [kv[k] EXCEPT !.exp = @ - 1] ELSE kv[k]]
    /\ UNCHANGED <<pubsubVars, calls, wire, errlog, arg, listVars,
                   linkVars, procVars>>

----------------------------------------------------------------------------
(* cacheHelpers.del / clearPattern, redis.js:99-123 *)

\* a helper whose synchronous part sends one command and awaits the answer
Issue(c) ==
    /\ CanCall
    /\ calls' = Append(calls, c)
    /\ wire' = Append(wire, Me)
    /\ UNCHANGED <<pubsubVars, errlog, cacheVars, listVars, linkVars, procVars>>

\* a helper that sends its command also when it has nothing to ask for
SendAnyway(c, res) ==
    /\ CanCall
    /\ calls' = Append(calls, [c EXCEPT !.res = res])
    /\ wire' = Append(wire, Me)
    /\ UNCHANGED <<pubsubVars, errlog, cacheVars, listVars, linkVars, procVars>>

\* a helper that returns from its synchronous part, sending nothing
ReturnAtOnce(c, res) ==
    /\ CanCall
    /\ calls' = Append(calls, [c EXCEPT !.res = res])
    /\ UNCHANGED <<pubsubVars, wire, errlog, cacheVars, listVars,
                   linkVars, procVars>>

\* the store answers the oldest outstanding command, which call i sent
Answered(i, cmd) ==
    /\ AtHead(i)
    /\ calls[i].cmd = cmd
    /\ calls[i].pc = "await"

\* the key arguments callers pass to del and mget
KeySeqs == SeqsUpTo(Keys, Cardinality(Keys))

\* lines 101-102: if (keys.length === 0) return 0; else DEL is sent
DelCall(ks) ==
    IF Len(ks) = 0
    THEN ReturnAtOnce(NewCall("del", "-", ks, "done", 0), [kind |-> "int", n |-> 0])
    ELSE Issue(NewCall("del", "-", ks, "await", 1))

\* DEL removes the named keys and answers how many of them existed
StoreDel(S) == [k \in DOMAIN kv \ S |-> kv[k]]
Removed(S) == Cardinality(S \cap DOMAIN kv)

\* line 102: the store's answer is returned
DelReply(i) ==
    /\ Answered(i, "del")
    /\ calls[i].op = "del"
    /\ wire' = Tail(wire)
    /\ kv' = StoreDel(Range(calls[i].val))
    /\ calls' = Return(i, [kind |-> "int", n |-> Removed(Range(calls[i].val))])
    /\ UNCHANGED <<pubsubVars, errlog, now, arg, listVars, linkVars, procVars>>

\* the patterns callers pass to clearPattern, and the characters of the
\* patterns and of the keys
Patterns == {"k*", "?1", "x*"}
Chars ==
    [x \in Patterns \cup Keys |->
        CASE x = "k*" -> <<"k", "*">>
          [] x = "?1" -> <<"?", "1">>
          [] x = "x*" -> <<"x", "*">>
          [] x = "k1" -> <<"k", "1">>
          [] x = "k2" -> <<"k", "2">>]

\* KEYS pattern: glob matching, * for any characters and ? for one
RECURSIVE GlobMatch(_, _)
GlobMatch(p, txt) ==
    IF p = <<>> THEN txt = <<>>
    ELSE IF Head(p) = "*"
         THEN GlobMatch(Tail(p), txt) \/ (txt # <<>> /\ GlobMatch(p, Tail(txt)))
    ELSE IF txt = <<>> THEN FALSE
    ELSE (Head(p) = "?" \/ Head(p) = Head(txt)) /\ GlobMatch(Tail(p), Tail(txt))
Matches(p, k) == GlobMatch(Chars[p], Chars[k])
StoreKeys(p) == {k \in DOMAIN kv : Matches(p, k)}

\* line 116, up to the await: KEYS pattern is sent
ClearPatternCall(p) ==
    Issue([NewCall("clearPattern", p, {}, "await", 1) EXCEPT !.cmd = "keys"])

\* a clear that deletes whatever matches the pattern when the DEL is executed
MatchingAtDeletion(i) == StoreKeys(calls[i].key)

\* line 118: redis.del(...keys), the keys that KEYS answered
EnumeratedKeys(i) == calls[i].val

\* KEYS answered: line 117 returns 0 for an empty enumeration, line 118 sends
\* DEL with the enumerated keys
KeysReply(i) ==
    /\ Answered(i, "keys")
    /\ IF StoreKeys(calls[i].key) = {}
       THEN /\ wire' = Tail(wire)
            /\ calls' = Return(i, [kind |-> "int", n |-> 0])
       ELSE /\ wire' = Append(Tail(wire), i)
            /\ calls' = [calls EXCEPT ![i].val = StoreKeys(calls[i].key),
                                      ![i].cmd = "del", ![i].sent = @ + 1]
    /\ UNCHANGED <<pubsubVars, errlog, cacheVars, listVars, linkVars, procVars>>

\* DEL answered: line 118 returns the number of keys removed
ClearDelReply(i) ==
    /\ Answered(i, "del")
    /\ calls[i].op = "clearPattern"
    /\ wire' = Tail(wire)
    /\ kv' = StoreDel(EnumeratedKeys(i))
    /\ calls' = Return(i, [kind |-> "int", n |-> Removed(EnumeratedKeys(i))])
    /\ UNCHANGED <<pubsubVars, errlog, now, arg, listVars, linkVars, procVars>>

----------------------------------------------------------------------------
(* cacheHelpers.exists / increment / decrement / mget / mset, redis.js:130-217 *)

\* line 132, up to the await
ExistsCall(k) == Issue(NewCall("exists", k, JNull, "await", 1))

\* lines 132-133: EXISTS answers 1 or 0, the helper returns exists === 1
ExistsReply(i) ==
    /\ Answered(i, "exists")
    /\ wire' = Tail(wire)
    /\ calls' = Return(i, [kind |-> "bool",
                           n |-> IF MapHas(kv, calls[i].key) THEN 1 ELSE 0])
    /\ UNCHANGED <<pubsubVars, errlog, cacheVars, listVars, linkVars, procVars>>

\* the amounts callers pass to increment and decrement (1 is the default)
Amounts == {1, 2}

\* line 162, up to the await: INCRBY key increment
IncrementCall(k, n) ==
    Issue([NewCall("increment", k, n, "await", 1) EXCEPT !.cmd = "incrby"])

\* line 177, up to the await: DECRBY key decrement
DecrementCall(k, n) ==
    Issue([NewCall("decrement", k, n, "await", 1) EXCEPT !.cmd = "decrby"])

\* the integer a stored text stands for; an absent key counts as 0
IsIntegerText(txt) == Parse(txt).ok /\ Parse(txt).v.t = "num"
Counter(k) == IF MapHas(kv, k) THEN Parse(kv[k].text).v.n ELSE 0
CanCount(k) == MapHas(kv, k) => IsIntegerText(kv[k].text)

\* INCRBY / DECRBY on an absent key or on the text of an integer: the store
\* writes the new number, keeps the expiration and answers the number, which
\* lines 162 and 177 return
CounterReply(i) ==
    /\ AtHead(i)
    /\ calls[i].cmd \in {"incrby", "decrby"}
    /\ CanCount(calls[i].key)
    /\ wire' = Tail(wire)
    /\ LET k == calls[i].key
           n == IF calls[i].cmd = "incrby"
                THEN Counter(k) + calls[i].val ELSE Counter(k) - calls[i].val
       IN  /\ kv' = MapSet(kv, k, [text |-> NumText(n),
                                    exp |-> IF MapHas(kv, k) THEN kv[k].exp ELSE -1])
           /\ calls' = Return(i, [kind |-> "int", n |-> n])
    /\ UNCHANGED <<pubsubVars, errlog, now, arg, listVars, linkVars, procVars>>

\* lines 191-192: if (keys.length === 0) return []; else MGET is sent
MGetCall(ks) ==
    IF Len(ks) = 0
    THEN ReturnAtOnce(NewCall("mget", "-", ks, "done", 0),
                      [kind |-> "values", n |-> 0, vs |-> <<>>])
    ELSE Issue(NewCall("mget", "-", ks, "await", 1))

\* a map that also takes the text of the number 0 for an absent key
MGetElementZeroFalsy(raw) ==
    IF ~TruthyText(raw) \/ raw = <<"0">> THEN [ok |-> TRUE, v |-> JNull]
    ELSE Parse(raw)

\* line 193: val ? JSON.parse(val) : null
MGetElement(raw) ==
    IF ~TruthyText(raw) THEN [ok |-> TRUE, v |-> JNull] ELSE Parse(raw)

\* MGET answered, in the order of the keys: line 193 maps the answers, lines
\* 194-197 log and rethrow when JSON.parse throws
MGetReply(i) ==
    /\ Answered(i, "mget")
    /\ wire' = Tail(wire)
    /\ LET ks == calls[i].val
           rs == [j \in 1..Len(ks) |-> MGetElement(RawGet(ks[j]))]
       IN  IF \A j \in 1..Len(ks) : rs[j].ok
           THEN /\ calls' = Return(i, [kind |-> "values", n |-> 0,
                                        vs |-> [j \in 1..Len(ks) |-> rs[j].v]])
                /\ errlog' = errlog
           ELSE /\ calls' = Finish(i, "threw")
                /\ errlog' = errlog + 1
    /\ UNCHANGED <<pubsubVars, cacheVars, listVars, linkVars, procVars>>

\* the objects callers pass to mset: their keys in insertion order and the
\* value of each key
Objects(Vals) ==
    {[ks |-> ks, vs |-> vs] : <<ks, vs>> \in
        {p \in SeqsOf(Keys) \X SeqsUpTo(Vals, Cardinality(Keys)) :
            Len(p[1]) = Len(p[2])}}

\* lines 207-211: args is key, text, key, text, ... in the order of
\* Object.entries; txt holds the texts
MSetCall(o) ==
    Issue([NewCall("mset", "-", o, "await", 1)
              EXCEPT !.txt = [j \in 1..Len(o.ks) |-> Stringify(o.vs[j])]])

\* MSET with at least one pair: every key is stored without expiration, at once
MSetReply(i) ==
    /\ Answered(i, "mset")
    /\ Len(calls[i].val.ks) > 0
    /\ wire' = Tail(wire)
    /\ LET ks == calls[i].val.ks
       IN  kv' = [k \in DOMAIN kv \cup Range(ks) |->
                     IF k \in Range(ks)
                     THEN [text |-> calls[i].txt[CHOOSE j \in 1..Len(ks) : ks[j] = k],
                           exp |-> -1]
                     ELSE kv[k]]
    /\ calls' = Return(i, [kind |-> "ok", n |-> 0])
    /\ UNCHANGED <<pubsubVars, errlog, now, arg, listVars, linkVars, procVars>>

\* The store answers an error to the oldest outstanding command (a command it
\* cannot run, such as MSET without arguments or INCRBY on a text that is no
\* integer, or any command while it is loading, out of memory or read-only),
\* or the connection has ended and the client fails the command.  The catch
\* block of the helper logs and rethrows.
Rejected(i) ==
    /\ calls[i].pc = "await"
    /\ calls[i].op \notin {"subscribe", "unsubscribe", "subscribeMultiple", "healthCheck"}
    /\ \/ Oldest(i)
       \/ status = "end" /\ \E x \in 1..Len(wire) : wire[x] = i
    /\ wire' = SelectSeq(wire, LAMBDA x : x # i)
    /\ blockedFor' = IF Oldest(i) THEN 0 ELSE blockedFor
    /\ calls' = Rejection(Rethrow(i), i)
    /\ errlog' = errlog + 1
    /\ UNCHANGED <<pubsubVars, cacheVars, lists, ext, linkVars, procVars>>

\* The connection is in subscriber mode and the command of call i is none of
\* the commands it carries: the command is answered with an error ("only
\* subscriber commands may be used"), and the catch block of the helper logs
\* and rethrows.
Refused(i) ==
    /\ calls[i].pc = "await"
    /\ Oldest(i)
    /\ ~Accepts(i)
    /\ wire' = Tail(wire)
    /\ blockedFor' = 0
    /\ calls' = Rejection(Rethrow(i), i)
    /\ errlog' = errlog + 1
    /\ UNCHANGED <<pubsubVars, cacheVars, lists, ext, linkVars, procVars>>

----------------------------------------------------------------------------
(* listHelpers.rpush / lpush / brpop / blpop, redis.js:317-341 and 476-502, *)
(* and pubSubHelpers.publish, redis.js:271-279                              *)

Sides == {"r", "l"}
ListVals == {JStr(<<"v">>)}
ExtVals == {JNum(0)}
\* the timeout arguments callers pass: 0 (the default) waits without limit
Timeouts == {{n} : n \in 0..MaxWait}

\* lines 319-320 and 335-336, up to the await
PushCall(side, k, v) ==
    /\ CanCall
    /\ calls' = Append(calls,
           [NewCall("push", k, v, "await", 1)
               EXCEPT !.txt = Stringify(v), !.cmd = side \o "push"])
    /\ wire' = Append(wire, Me)
    /\ UNCHANGED <<pubsubVars, errlog, cacheVars, listVars, linkVars, procVars>>

\* a push that puts the value at the left end, whichever the side
PushedAtHead(l, side, txt) == <<txt>> \o l

\* RPUSH appends at the right end, LPUSH at the left end
Pushed(l, side, txt) == IF side = "r" THEN Append(l, txt) ELSE <<txt>> \o l

\* the store executes the push and answers the new length
PushReply(i) ==
    /\ AtHead(i)
    /\ calls[i].op = "push"
    /\ wire' = Tail(wire)
    /\ LET l == Pushed(lists[calls[i].key],
                       IF calls[i].cmd = "rpush" THEN "r" ELSE "l", calls[i].txt)
       IN  /\ lists' = [lists EXCEPT ![calls[i].key] = l]
           /\ calls' = Return(i, [kind |-> "int", n |-> Len(l)])
    /\ UNCHANGED <<pubsubVars, errlog, cacheVars, blockedFor, ext,
                   linkVars, procVars>>

\* lines 478 and 495, up to the await
BPopCall(side, k, t) ==
    /\ CanCall
    /\ calls' = Append(calls,
           [NewCall("bpop", k, JNull, "await", 1)
               EXCEPT !.t = t, !.cmd = "b" \o side \o "pop"])
    /\ wire' = Append(wire, Me)
    /\ UNCHANGED <<pubsubVars, errlog, cacheVars, listVars, linkVars, procVars>>

PoppedText(l, cmd) == IF cmd = "brpop" THEN l[Len(l)] ELSE l[1]
AfterPop(l, cmd) == IF cmd = "brpop" THEN SubSeq(l, 1, Len(l) - 1) ELSE Tail(l)

\* the list holds a value: the store pops it and answers [key, text]; lines
\* 479-480 / 496-497 return [result[0], JSON.parse(result[1])]
BPopReply(i) ==
    /\ AtHead(i)
    /\ calls[i].op = "bpop"
    /\ lists[calls[i].key] # <<>>
    /\ wire' = Tail(wire)
    /\ lists' = [lists EXCEPT ![calls[i].key] = AfterPop(@, calls[i].cmd)]
    /\ blockedFor' = 0
    /\ LET r == Parse(PoppedText(lists[calls[i].key], calls[i].cmd))
       IN  IF r.ok
           THEN /\ calls' = Return(i, [kind |-> "pair", n |-> 0,
                                        k |-> calls[i].key, v |-> r.v])
                /\ errlog' = errlog
           ELSE /\ calls' = Finish(i, "threw")
                /\ errlog' = errlog + 1
    /\ UNCHANGED <<pubsubVars, cacheVars, ext, linkVars, procVars>>

\* a second passes while the store holds the connection in a blocking pop that
\* has a timeout
BlockTick ==
    /\ Blocked
    /\ TimeoutOf(Head(wire)) > 0
    /\ ~TimedOut
    /\ blockedFor' = blockedFor + 1
    /\ UNCHANGED <<pubsubVars, calls, wire, errlog, cacheVars, lists, ext,
                   linkVars, procVars>>

\* the timeout elapsed on an empty list: the store answers nil; lines 479 / 496
\* return null
BPopTimeout(i) ==
    /\ AtHead(i)
    /\ Blocked
    /\ TimedOut
    /\ wire' = Tail(wire)
    /\ blockedFor' = 0
    /\ calls' = Return(i, [kind |-> "null", n |-> 0])
    /\ UNCHANGED <<pubsubVars, errlog, cacheVars, lists, ext,
                   linkVars, procVars>>

\* another client of the store appends a value to a list
ExtPush(k, v) ==
    /\ ext < MaxExt
    /\ ext' = ext + 1
    /\ lists' = [lists EXCEPT ![k] = Append(@, Stringify(v))]
    /\ UNCHANGED <<pubsubVars, calls, wire, errlog, cacheVars, blockedFor,
                   linkVars, procVars>>

\* lines 273-274, up to the await
PublishCall(c, m) ==
    /\ CanCall
    /\ calls' = Append(calls, NewCall("publish", c, m, "await", 1))
    /\ wire' = Append(wire, Me)
    /\ UNCHANGED <<pubsubVars, errlog, cacheVars, listVars, linkVars, procVars>>

\* the store fans the message out and answers the number of receivers
PublishReply(i) ==
    /\ AtHead(i)
    /\ calls[i].op = "publish"
    /\ wire' = Tail(wire)
    /\ published' = Append(published,
           [ch |-> calls[i].key, msg |-> calls[i].val,
            emitted |-> calls[i].key \in serverSubs,
            handlers |-> HandlersOf(calls[i].key)])
    /\ invoked' = IF calls[i].key \in serverSubs
                  THEN invoked \o OnMessage(calls[i].key, calls[i].val,
                                            Len(published) + 1)
                  ELSE invoked
    /\ calls' = [Return(i, [kind |-> "int",
                            n |-> IF calls[i].key \in serverSubs THEN 1 ELSE 0])
                    EXCEPT ![i].mark = Stamp + 1]
    /\ UNCHANGED <<subscribers, serverSubs, errlog, cacheVars, listVars,
                   linkVars, procVars>>

----------------------------------------------------------------------------
(* listHelpers.rpop / lpop / lrange / llen / lindex / lset / lrem / ltrim /  *)
(* clear, redis.js:348-470 and 509-516                                       *)

\* lines 350 and 365, up to the await
PopCall(side, k) ==
    Issue([NewCall("pop", k, JNull, "await", 1) EXCEPT !.cmd = side \o "pop"])

\* lines 351 and 366: value ? JSON.parse(value) : null
PopResult(raw) ==
    IF ~TruthyText(raw) THEN [ok |-> TRUE, v |-> JNull] ELSE Parse(raw)

\* RPOP / LPOP: the store removes the element at that end and answers it, or
\* answers nil for an empty (absent) list
PopReply(i) ==
    /\ AtHead(i)
    /\ calls[i].op = "pop"
    /\ wire' = Tail(wire)
    /\ LET l == lists[calls[i].key]
           end == IF calls[i].cmd = "rpop" THEN "brpop" ELSE "blpop"
           r == IF l = <<>> THEN PopResult(Miss) ELSE PopResult(PoppedText(l, end))
       IN  /\ lists' = IF l = <<>> THEN lists
                       ELSE [lists EXCEPT ![calls[i].key] = AfterPop(l, end)]
           /\ IF r.ok
              THEN /\ calls' = Return(i, IF l = <<>> THEN [kind |-> "null", n |-> 0]
                                         ELSE [kind |-> "value", n |-> 0, v |-> r.v])
                   /\ errlog' = errlog
              ELSE /\ calls' = Finish(i, "threw")
                   /\ errlog' = errlog + 1
    /\ UNCHANGED <<pubsubVars, cacheVars, blockedFor, ext, linkVars, procVars>>

\* the index arguments callers pass; negative ones count from the right end
Indexes == {-1, 0, 1}
FromLeft(idx, len) == IF idx < 0 THEN len + idx ELSE idx
ListRange(l, start, stop) ==
    LET a == IF FromLeft(start, Len(l)) < 0 THEN 0 ELSE FromLeft(start, Len(l))
        b == IF FromLeft(stop, Len(l)) >= Len(l) THEN Len(l) - 1
             ELSE FromLeft(stop, Len(l))
    IN  IF a > b THEN <<>> ELSE SubSeq(l, a + 1, b + 1)
InRange(l, idx) == FromLeft(idx, Len(l)) >= 0 /\ FromLeft(idx, Len(l)) < Len(l)

\* line 382, up to the await
LRangeCall(k, start, stop) == Issue(NewCall("lrange", k, <<start, stop>>, "await", 1))

\* lines 382-383: values.map(v => JSON.parse(v))
LRangeReply(i) ==
    /\ Answered(i, "lrange")
    /\ wire' = Tail(wire)
    /\ LET l == ListRange(lists[calls[i].key], calls[i].val[1], calls[i].val[2])
       IN  IF \A j \in 1..Len(l) : Parse(l[j]).ok
           THEN /\ calls' = Return(i, [kind |-> "values", n |-> 0,
                                        vs |-> [j \in 1..Len(l) |-> Parse(l[j]).v]])
                /\ errlog' = errlog
           ELSE /\ calls' = Finish(i, "threw")
                /\ errlog' = errlog + 1
    /\ UNCHANGED <<pubsubVars, cacheVars, listVars, linkVars, procVars>>

\* line 397, up to the await
LLenCall(k) == Issue(NewCall("llen", k, JNull, "await", 1))

\* line 397: the store's answer is returned
LLenReply(i) ==
    /\ Answered(i, "llen")
    /\ wire' = Tail(wire)
    /\ calls' = Return(i, [kind |-> "int", n |-> Len(lists[calls[i].key])])
    /\ UNCHANGED <<pubsubVars, errlog, cacheVars, listVars, linkVars, procVars>>

\* line 412, up to the await
LIndexCall(k, idx) == Issue(NewCall("lindex", k, idx, "await", 1))

\* lines 412-413: value ? JSON.parse(value) : null; nil is answered for an
\* index outside the list
LIndexReply(i) ==
    /\ Answered(i, "lindex")
    /\ wire' = Tail(wire)
    /\ LET l == lists[calls[i].key]
           r == IF InRange(l, calls[i].val)
                THEN PopResult(l[FromLeft(calls[i].val, Len(l)) + 1])
                ELSE PopResult(Miss)
       IN  IF r.ok
           THEN /\ calls' = Return(i, IF InRange(l, calls[i].val)
                                      THEN [kind |-> "value", n |-> 0, v |-> r.v]
                                      ELSE [kind |-> "null", n |-> 0])
                /\ errlog' = errlog
           ELSE /\ calls' = Finish(i, "threw")
                /\ errlog' = errlog + 1
    /\ UNCHANGED <<pubsubVars, cacheVars, listVars, linkVars, procVars>>

\* lines 429-430, up to the await
LSetCall(k, idx, v) ==
    Issue([NewCall("lset", k, idx, "await", 1) EXCEPT !.txt = Stringify(v)])

\* LSET with an index inside the list (otherwise the store answers an error)
LSetReply(i) ==
    /\ Answered(i, "lset")
    /\ InRange(lists[calls[i].key], calls[i].val)
    /\ wire' = Tail(wire)
    /\ lists' = [lists EXCEPT ![calls[i].key] =
                    [@ EXCEPT ![FromLeft(calls[i].val, Len(@)) + 1] = calls[i].txt]]
    /\ calls' = Return(i, [kind |-> "ok", n |-> 0])
    /\ UNCHANGED <<pubsubVars, errlog, cacheVars, blockedFor, ext, linkVars, procVars>>

\* LREM count text removes the first count elements equal to text, the last
\* -count of them for a negative count, all of them for 0
RECURSIVE RemoveFirst(_, _, _)
RemoveFirst(l, txt, n) ==
    IF l = <<>> \/ n = 0 THEN l
    ELSE IF Head(l) = txt THEN RemoveFirst(Tail(l), txt, n - 1)
    ELSE <<Head(l)>> \o RemoveFirst(Tail(l), txt, n)
Reverse(l) == [j \in 1..Len(l) |-> l[Len(l) + 1 - j]]
AfterRem(l, count, txt) ==
    IF count > 0 THEN RemoveFirst(l, txt, count)
    ELSE IF count < 0 THEN Reverse(RemoveFirst(Reverse(l), txt, -count))
    ELSE SelectSeq(l, LAMBDA x : x # txt)

\* lines 446-447, up to the await
LRemCall(k, count, v) ==
    Issue([NewCall("lrem", k, count, "await", 1) EXCEPT !.txt = Stringify(v)])

\* line 447: the number of removed elements is returned
LRemReply(i) ==
    /\ Answered(i, "lrem")
    /\ wire' = Tail(wire)
    /\ LET l == lists[calls[i].key]
           m == AfterRem(l, calls[i].val, calls[i].txt)
       IN  /\ lists' = [lists EXCEPT ![calls[i].key] = m]
           /\ calls' = Return(i, [kind |-> "int", n |-> Len(l) - Len(m)])
    /\ UNCHANGED <<pubsubVars, errlog, cacheVars, blockedFor, ext, linkVars, procVars>>

\* line 463, up to the await
LTrimCall(k, start, stop) == Issue(NewCall("ltrim", k, <<start, stop>>, "await", 1))

\* LTRIM keeps the elements of the range
LTrimReply(i) ==
    /\ Answered(i, "ltrim")
    /\ wire' = Tail(wire)
    /\ lists' = [lists EXCEPT ![calls[i].key] =
                    ListRange(@, calls[i].val[1], calls[i].val[2])]
    /\ calls' = Return(i, [kind |-> "ok", n |-> 0])
    /\ UNCHANGED <<pubsubVars, errlog, cacheVars, blockedFor, ext, linkVars, procVars>>

\* line 511, up to the await: DEL key
ClearCall(k) == Issue([NewCall("clear", k, JNull, "await", 1) EXCEPT !.cmd = "del"])

\* line 511: the list is removed; the answer is 1 when it existed
ClearReply(i) ==
    /\ Answered(i, "del")
    /\ calls[i].op = "clear"
    /\ wire' = Tail(wire)
    /\ lists' = [lists EXCEPT ![calls[i].key] = <<>>]
    /\ calls' = Return(i, [kind |-> "int",
                           n |-> IF lists[calls[i].key] = <<>> THEN 0 ELSE 1])
    /\ UNCHANGED <<pubsubVars, errlog, cacheVars, blockedFor, ext, linkVars, procVars>>

----------------------------------------------------------------------------
(* The connection: redisConfig, redis.js:7-20, and healthCheck / disconnect, *)
(* redis.js:522-543.  The client keeps the commands it was asked for in one  *)
(* queue, `wire`: with enableOfflineQueue (line 18) a command asked for      *)
(* while the connection is down waits there, and with maxRetriesPerRequest   *)
(* null (line 16) the client fails no waiting command however many           *)
(* reconnections it takes; the commands are sent, oldest first, when the     *)
(* connection is up again.                                                   *)

\* a strategy without the cap
retryStrategyUncapped(times) == times * 50

\* lines 12-15: Math.min(times * 50, 2000)
retryStrategy(times) == IF times * 50 < 2000 THEN times * 50 ELSE 2000

\* the client reconnects after a delay when the strategy answers a number, and
\* gives up when it answers anything else
IsDelay(d) == d \in Nat

\* the connection to the store breaks: the client asks the strategy for the
\* delay before its first attempt
ConnectionLost ==
    /\ status = "ready"
    /\ attempt' = 1
    /\ delay' = retryStrategy(1)
    /\ status' = IF IsDelay(retryStrategy(1)) THEN "reconnecting" ELSE "end"
    /\ blockedFor' = 0
    /\ UNCHANGED <<pubsubVars, calls, wire, errlog, cacheVars, lists, ext, procVars>>

\* an attempt fails (refused, or no answer within connectTimeout, line 19):
\* the client asks the strategy for the next delay
ReconnectFailed ==
    /\ status = "reconnecting"
    /\ attempt < MaxAttempts
    /\ attempt' = attempt + 1
    /\ delay' = retryStrategy(attempt + 1)
    /\ status' = IF IsDelay(retryStrategy(attempt + 1)) THEN "reconnecting" ELSE "end"
    /\ UNCHANGED <<helperVars, procVars>>

\* an attempt succeeds: the connection is up (enableReadyCheck is false, line
\* 17) and the waiting commands are sent
Reconnected ==
    /\ status = "reconnecting"
    /\ status' = "ready"
    /\ attempt' = 0
    /\ delay' = 0
    /\ UNCHANGED <<helperVars, procVars>>

\* line 524, up to the await: PING
HealthCheckCall == Issue([NewCall("healthCheck", "-", JNull, "await", 1) EXCEPT !.cmd = "ping"])

\* line 525: return pong === 'PONG'
PingReply(i) ==
    /\ Answered(i, "ping")
    /\ wire' = Tail(wire)
    /\ calls' = Return(i, [kind |-> "bool", n |-> 1])
    /\ UNCHANGED <<pubsubVars, errlog, cacheVars, listVars, linkVars, procVars>>

\* redis.ping rejected (the store answers an error, or the connection has
\* ended): lines 526-529 log and return false
PingFail(i) ==
    /\ calls[i].pc = "await"
    /\ calls[i].cmd = "ping"
    /\ \/ AtHead(i)
       \/ status = "end" /\ \E x \in 1..Len(wire) : wire[x] = i
    /\ wire' = SelectSeq(wire, LAMBDA x : x # i)
    /\ calls' = Rejection(Return(i, [kind |-> "bool", n |-> 0]), i)
    /\ errlog' = errlog + 1
    /\ UNCHANGED <<pubsubVars, cacheVars, listVars, linkVars, procVars>>

\* line 537, up to the await: QUIT
DisconnectCall == Issue([NewCall("disconnect", "-", JNull, "await", 1) EXCEPT !.cmd = "quit"])

\* QUIT answered: the store closes the connection and the client does not
\* reconnect; line 538 logs and the call returns
QuitReply(i) ==
    /\ Answered(i, "quit")
    /\ wire' = Tail(wire)
    /\ status' = "end"
    /\ calls' = Return(i, [kind |-> "void", n |-> 0])
    /\ UNCHANGED <<pubsubVars, errlog, cacheVars, listVars, attempt, delay, procVars>>

----------------------------------------------------------------------------
(* The server process, src/src/config/database.js: the SIGINT handler of the *)
(* database module (lines 140-150) and gracefulShutdown (lines 407-438).     *)
(* Both are listeners of the one process; a signal runs its listeners in the *)
(* order they were registered, each up to its first await.                   *)

Running == exitCode = -1
Signals == {"SIGTERM", "SIGINT"}

\* a client opens an HTTP connection, or closes one
HttpConnect ==
    /\ Running
    /\ listening
    /\ conns < MaxConns
    /\ conns' = conns + 1
    /\ UNCHANGED <<helperVars, linkVars, health, listening, dbHandlers, shutdowns,
                   quitIssued, exitCode>>

HttpDisconnect ==
    /\ Running
    /\ conns > 0
    /\ conns' = conns - 1
    /\ UNCHANGED <<helperVars, linkVars, health, listening, dbHandlers, shutdowns,
                   quitIssued, exitCode>>

\* lines 408-434: server.close(callback) stops the server from accepting
\* connections at once, and the 30-second timer is armed
gracefulShutdown(signal) ==
    Append(shutdowns, [signal |-> signal, pc |-> "closing", call |-> 0])

\* The signal is delivered.  SIGINT first runs the listener of lines 140-150,
\* registered when the database module was loaded, up to its await of
\* sequelize.close() (line 143), then the listener of line 438; SIGTERM runs
\* the listener of line 437.
Signal(sig) ==
    /\ Running
    /\ Len(shutdowns) < MaxSignals
    /\ dbHandlers' = IF sig = "SIGINT" THEN Append(dbHandlers, "closing")
                     ELSE dbHandlers
    /\ shutdowns' = gracefulShutdown(sig)
    /\ listening' = FALSE
    /\ UNCHANGED <<helperVars, linkVars, health, conns, quitIssued, exitCode>>

\* lines 143-145: sequelize.close() resolved, process.exit(0)
DbHandlerClosed(j) ==
    /\ Running
    /\ dbHandlers[j] = "closing"
    /\ dbHandlers' = [dbHandlers EXCEPT ![j] = "exited"]
    /\ exitCode' = 0
    /\ UNCHANGED <<helperVars, linkVars, health, listening, conns, shutdowns, quitIssued>>

\* lines 146-148: sequelize.close() rejected, process.exit(1)
DbHandlerFailed(j) ==
    /\ Running
    /\ dbHandlers[j] = "closing"
    /\ dbHandlers' = [dbHandlers EXCEPT ![j] = "exited"]
    /\ exitCode' = 1
    /\ UNCHANGED <<helperVars, linkVars, health, listening, conns, shutdowns, quitIssued>>

\* the server has closed: it accepts nothing and its connections have ended.
\* The callback of line 410 runs up to its await of sequelize.close(), line 415.
HttpClosed(j) ==
    /\ Running
    /\ shutdowns[j].pc = "closing"
    /\ ~listening
    /\ conns = 0
    /\ shutdowns' = [shutdowns EXCEPT ![j].pc = "db"]
    /\ UNCHANGED <<helperVars, linkVars, health, listening, conns, dbHandlers,
                   quitIssued, exitCode>>

\* lines 415-419: sequelize.close() resolved; redisClient.quit() is called and
\* awaited.  QUIT goes out on the connection behind the commands that are
\* outstanding.
DbClosed(j) ==
    /\ Running
    /\ shutdowns[j].pc = "db"
    /\ calls' = Append(calls, NewCall("quit", "-", JNull, "await", 1))
    /\ wire' = Append(wire, Me)
    /\ shutdowns' = [shutdowns EXCEPT ![j].pc = "quit", ![j].call = Me]
    /\ quitIssued' = quitIssued + 1
    /\ UNCHANGED <<pubsubVars, errlog, cacheVars, listVars, linkVars, health,
                   listening, conns, dbHandlers, exitCode>>

\* lines 419-423: the store answered QUIT and the connection has ended; quit
\* resolved, process.exit(0)
QuitDone(j) ==
    /\ Running
    /\ shutdowns[j].pc = "quit"
    /\ Answered(shutdowns[j].call, "quit")
    /\ wire' = Tail(wire)
    /\ status' = "end"
    /\ calls' = Return(shutdowns[j].call, [kind |-> "void", n |-> 0])
    /\ shutdowns' = [shutdowns EXCEPT ![j].pc = "exited"]
    /\ exitCode' = 0
    /\ UNCHANGED <<pubsubVars, errlog, cacheVars, listVars, attempt, delay, health,
                   listening, conns, dbHandlers, quitIssued>>

\* lines 424-427: sequelize.close() rejected, or redisClient.quit() threw or
\* rejected: process.exit(1)
ShutdownFailed(j) ==
    /\ Running
    /\ shutdowns[j].pc \in {"db", "quit"}
    /\ shutdowns' = [shutdowns EXCEPT ![j].pc = "exited"]
    /\ exitCode' = 1
    /\ UNCHANGED <<helperVars, linkVars, health, listening, conns, dbHandlers, quitIssued>>

\* a timer that never fires
TimerNeverFires(j) == FALSE /\ UNCHANGED vars

\* lines 431-434: the timer of run j fires, process.exit(1)
ForcedExit(j) ==
    /\ Running
    /\ shutdowns[j].pc # "exited"
    /\ shutdowns' = [shutdowns EXCEPT ![j].pc = "exited"]
    /\ exitCode' = 1
    /\ UNCHANGED <<helperVars, linkVars, health, listening, conns, dbHandlers, quitIssued>>

----------------------------------------------------------------------------
(* The /health endpoint, database.js:277-308.  The handler starts both checks *)
(* and returns; the callbacks of the two promises run in the order in which   *)
(* the checks settle.  code is the HTTP status answered, 0 before the answer. *)

\* lines 278-285, and the two checks started at lines 288 and 298
HealthRequest ==
    /\ Running
    /\ listening
    /\ Len(health) < MaxRequests
    /\ health' = Append(health, [status |-> "OK", database |-> "checking",
                                 redis |-> "checking", code |-> 0])
    /\ UNCHANGED <<helperVars, linkVars, listening, conns, dbHandlers, shutdowns,
                   quitIssued, exitCode>>

\* lines 289-291: sequelize.authenticate() resolved
DbCheckPassed(r) ==
    /\ Running
    /\ health[r].database = "checking"
    /\ health' = [health EXCEPT ![r].database = "connected"]
    /\ UNCHANGED <<helperVars, linkVars, listening, conns, dbHandlers, shutdowns,
                   quitIssued, exitCode>>

\* lines 292-295: sequelize.authenticate() rejected
DbCheckFailed(r) ==
    /\ Running
    /\ health[r].database = "checking"
    /\ health' = [health EXCEPT ![r].database = "disconnected",
                                ![r].status = "DEGRADED"]
    /\ UNCHANGED <<helperVars, linkVars, listening, conns, dbHandlers, shutdowns,
                   quitIssued, exitCode>>

\* line 301: res.status(health.status === 'OK' ? 200 : 503)
AnswerOnPing(h) == IF h.status = "OK" THEN 200 ELSE 503

\* lines 299-302: redisClient.ping() resolved, the response is sent
PingPassed(r) ==
    /\ Running
    /\ health[r].redis = "checking"
    /\ health' = [health EXCEPT ![r].redis = "connected",
                                ![r].code = AnswerOnPing(health[r])]
    /\ UNCHANGED <<helperVars, linkVars, listening, conns, dbHandlers, shutdowns,
                   quitIssued, exitCode>>

\* lines 303-307: redisClient.ping() rejected, the response is 503
PingFailed(r) ==
    /\ Running
    /\ health[r].redis = "checking"
    /\ health' = [health EXCEPT ![r].redis = "disconnected",
                                ![r].status = "DEGRADED", ![r].code = 503]
    /\ UNCHANGED <<helperVars, linkVars, listening, conns, dbHandlers, shutdowns,
                   quitIssued, exitCode>>

----------------------------------------------------------------------------
\* the server process once initializeServer has run: database.js:371-450
Serving ==
    /\ listening = TRUE
    /\ conns = 0
    /\ dbHandlers = <<>>
    /\ shutdowns = <<>>
    /\ quitIssued = 0
    /\ exitCode = -1
    /\ health = <<>>

\* the client when the module has been loaded: redis.js:25 and 225
Client ==
    /\ subscribers = EmptyMap
    /\ calls = <<>>
    /\ wire = <<>>
    /\ serverSubs = {}
    /\ published = <<>>
    /\ invoked = <<>>
    /\ errlog = 0
    /\ now = 0
    /\ blockedFor = 0
    /\ ext = 0
    /\ status = "ready"
    /\ attempt = 0
    /\ delay = 0
    /\ Serving

\* a store that holds nothing
EmptyStore ==
    /\ kv = EmptyMap
    /\ lists = [k \in ListKeys |-> <<>>]

\* the state when the module has been loaded
Loaded == Client /\ EmptyStore

Init == Loaded /\ arg = JNull

Next ==
    \/ \E c \in Channels, h \in HandlerIds : SubscribeCall(c, h)
    \/ \E i \in 1..Len(calls) : SubscribeReply(i)
    \/ \E i \in 1..Len(calls) : SubscribeFail(i)
    \/ \E c \in Channels : UnsubscribeCall(c)
    \/ \E i \in 1..Len(calls) : UnsubscribeReply(i)
    \/ \E i \in 1..Len(calls) : UnsubscribeFail(i)
    \/ \E c \in Channels, m \in Msgs : Publish(c, m)

Spec == Init /\ [][Next]_vars

(* The registry alone: callers subscribe and unsubscribe, nobody publishes. *)
NextRegistry ==
    \/ \E c \in Channels, h \in HandlerIds : SubscribeCall(c, h)
    \/ \E i \in 1..Len(calls) : SubscribeReply(i)
    \/ \E i \in 1..Len(calls) : SubscribeFail(i)
    \/ \E c \in Channels : UnsubscribeCall(c)
    \/ \E i \in 1..Len(calls) : UnsubscribeReply(i)
    \/ \E i \in 1..Len(calls) : UnsubscribeFail(i)

SpecRegistry == Init /\ [][NextRegistry]_vars

(* The registry with another client of the store that publishes to c1. *)
NextPublisher ==
    \/ NextRegistry
    \/ \E m \in Msgs : Publish("c1", m)

SpecPublisher == Init /\ [][NextPublisher]_vars

----------------------------------------------------------------------------
(* The cache helpers.  Callers cache one of a few values that JavaScript     *)
(* treats as falsy or that serialize to short texts, with every ttl argument.*)
CacheArgs == {JNull, JFalse, JNum(0), JStr(<<>>)}

InitCache == Loaded /\ arg \in CacheArgs

NextCache ==
    \/ \E k \in Keys, t \in TtlArgs : SetCall(k, arg, t)
    \/ \E i \in 1..Len(calls) : SetReply(i)
    \/ \E i \in 1..Len(calls) : SetexReply(i)
    \/ \E i \in 1..Len(calls) : SetexRejected(i)
    \/ \E k \in Keys : GetCall(k)
    \/ \E i \in 1..Len(calls) : GetReply(i)
    \/ \E k \in Keys : GetTTLCall(k)
    \/ \E i \in 1..Len(calls) : GetTTLReply(i)
    \/ Tick

SpecCache == InitCache /\ [][NextCache]_vars

(* The round trip through the store, for every JSON value of a bounded shape: *)
(* primitives, and arrays and objects of up to MaxLen elements.              *)
Atoms == {JNull, JTrue, JFalse, JNum(0), JNum(-1), JNum(305), JArr(<<JArr(<<>>)>>),
          JStr(<<>>), JStr(<<"a", "\"", "\\">>), JStr(<<"n", "u", "l", "l">>)}
Elems == {JNum(0), JStr(<<"]">>), JObj(<<"a">>, <<JArr(<<JNull>>)>>)}
JsonValues ==
    Atoms
    \cup {JArr(a) : a \in SeqsUpTo(Elems, MaxLen)}
    \cup {JObj(ks, a) : <<ks, a>> \in
             {p \in SeqsUpTo({"a", "b"}, MaxLen) \X SeqsUpTo(Elems, MaxLen) :
                 Len(p[1]) = Len(p[2]) /\ Distinct(p[1])}}

InitRoundTrip == Loaded /\ arg \in JsonValues

NextRoundTrip ==
    \/ \E k \in Keys : SetCall(k, arg, {})
    \/ \E i \in 1..Len(calls) : SetReply(i)
    \/ \E k \in Keys : GetCall(k)
    \/ \E i \in 1..Len(calls) : GetReply(i)

SpecRoundTrip == InitRoundTrip /\ [][NextRoundTrip]_vars

(* Clearing by pattern while other callers set and delete keys, over a store *)
(* that already holds some of the keys.                                      *)
Stored(S) == [k \in S |-> [text |-> Stringify(JNum(0)), exp |-> -1]]

InitClear ==
    /\ Client
    /\ kv \in {Stored(S) : S \in SUBSET Keys}
    /\ lists = [k \in ListKeys |-> <<>>]
    /\ arg = JTrue

NextClear ==
    \/ \E k \in Keys : SetCall(k, arg, {})
    \/ \E i \in 1..Len(calls) : SetReply(i)
    \/ \E ks \in KeySeqs : DelCall(ks)
    \/ \E i \in 1..Len(calls) : DelReply(i)
    \/ \E p \in Patterns : ClearPatternCall(p)
    \/ \E i \in 1..Len(calls) : KeysReply(i)
    \/ \E i \in 1..Len(calls) : ClearDelReply(i)

SpecClear == InitClear /\ [][NextClear]_vars

(* Several keys at once: mset, mget and del over a store that already holds *)
(* some of the keys.  The callers' objects hold the value of this behaviour, *)
(* one that JavaScript treats as falsy, and the number 1.                    *)
MultiArgs == {JNum(0), JStr(<<>>)}
DelArgs == {<<>>, <<"k1">>, <<"k2", "k1">>}

InitMulti ==
    /\ Client
    /\ kv \in {Stored(S) : S \in {{}, {"k1"}}}
    /\ lists = [k \in ListKeys |-> <<>>]
    /\ arg \in MultiArgs

NextMulti ==
    \/ \E o \in Objects({arg, JNum(1)}) : Few /\ MSetCall(o)
    \/ \E i \in 1..Len(calls) : MSetReply(i)
    \/ \E ks \in KeySeqs : Few /\ MGetCall(ks)
    \/ \E i \in 1..Len(calls) : MGetReply(i)
    \/ \E ks \in DelArgs : Few /\ DelCall(ks)
    \/ \E i \in 1..Len(calls) : DelReply(i)
    \/ \E i \in 1..Len(calls) : Rejected(i)

SpecMulti == InitMulti /\ [][NextMulti]_vars

(* A list used as a queue: producers append at the right end, any number of *)
(* consumers pop at the left end.                                            *)
QueueVals == {JNum(0), JNull, JStr(<<"a">>)}

NextQueue ==
    \/ \E k \in ListKeys, v \in QueueVals : PushCall("r", k, v)
    \/ \E i \in 1..Len(calls) : PushReply(i)
    \/ \E k \in ListKeys : PopCall("l", k)
    \/ \E i \in 1..Len(calls) : PopReply(i)

SpecQueue == Init /\ [][NextQueue]_vars

(* Subscribing to lists of channels, next to callers that subscribe to one *)
(* channel.                                                                  *)
NextMultiple ==
    \/ \E chs \in ChannelLists : Few /\ SubscribeMultipleCall(chs, "h1")
    \/ \E i \in 1..Len(calls) : SubscribeMultipleReply(i)
    \/ \E i \in 1..Len(calls) : SubscribeMultipleFail(i)
    \/ \E c \in Channels : Few /\ SubscribeCall(c, "h2")
    \/ \E i \in 1..Len(calls) : SubscribeReply(i)
    \/ \E i \in 1..Len(calls) : SubscribeFail(i)

SpecMultiple == Init /\ [][NextMultiple]_vars

(* The connection breaks and the client reconnects while callers probe it.  *)
(* The client's timers fire and the store answers the commands it receives,  *)
(* hence the fairness conditions; nothing obliges the connection to break or *)
(* the callers to probe.                                                     *)
NextLink ==
    \/ ConnectionLost
    \/ ReconnectFailed
    \/ Reconnected
    \/ HealthCheckCall
    \/ \E i \in 1..Len(calls) : PingReply(i)
    \/ \E i \in 1..Len(calls) : PingFail(i)

Retries == ReconnectFailed \/ Reconnected
PingAnswers == \E i \in 1..Len(calls) : PingReply(i) \/ PingFail(i)

SpecLink == Init /\ [][NextLink]_vars /\ WF_vars(Retries) /\ WF_vars(PingAnswers)

(* Every operation of the three helper objects, and disconnect, on the one   *)
(* client, with a store that may answer an error to any command and a client *)
(* that fails what is outstanding once the connection has ended.  Callers    *)
(* pass one argument list to each operation.                                 *)
NextFail ==
    \/ \E t \in {{}, {-1}, {1}} : Few /\ SetCall("k1", arg, t)
    \/ \E i \in 1..Len(calls) : SetReply(i)
    \/ \E i \in 1..Len(calls) : SetexReply(i)
    \/ \E i \in 1..Len(calls) : SetexRejected(i)
    \/ Few /\ GetCall("k1")
    \/ \E i \in 1..Len(calls) : GetReply(i)
    \/ Few /\ DelCall(<<"k1">>)
    \/ \E i \in 1..Len(calls) : DelReply(i)
    \/ Few /\ ClearPatternCall("k*")
    \/ \E i \in 1..Len(calls) : KeysReply(i)
    \/ \E i \in 1..Len(calls) : ClearDelReply(i)
    \/ Few /\ ExistsCall("k1")
    \/ \E i \in 1..Len(calls) : ExistsReply(i)
    \/ Few /\ GetTTLCall("k1")
    \/ \E i \in 1..Len(calls) : GetTTLReply(i)
    \/ Few /\ IncrementCall("k1", 1)
    \/ Few /\ DecrementCall("k1", 1)
    \/ \E i \in 1..Len(calls) : CounterReply(i)
    \/ Few /\ MGetCall(<<"k1">>)
    \/ \E i \in 1..Len(calls) : MGetReply(i)
    \/ \E o \in Objects({arg}) : Few /\ Len(o.ks) < 2 /\ MSetCall(o)
    \/ \E i \in 1..Len(calls) : MSetReply(i)
    \/ Few /\ SubscribeCall("c1", "h1")
    \/ \E i \in 1..Len(calls) : SubscribeReply(i)
    \/ \E i \in 1..Len(calls) : SubscribeFail(i)
    \/ Few /\ UnsubscribeCall("c1")
    \/ \E i \in 1..Len(calls) : UnsubscribeReply(i)
    \/ \E i \in 1..Len(calls) : UnsubscribeFail(i)
    \/ Few /\ PublishCall("c1", "m1")
    \/ \E i \in 1..Len(calls) : PublishReply(i)
    \/ Few /\ SubscribeMultipleCall(<<"c1", "c2">>, "h2")
    \/ \E i \in 1..Len(calls) : SubscribeMultipleReply(i)
    \/ \E i \in 1..Len(calls) : SubscribeMultipleFail(i)
    \/ Few /\ PushCall("r", "q1", arg)
    \/ Few /\ PushCall("l", "q1", arg)
    \/ \E i \in 1..Len(calls) : PushReply(i)
    \/ Few /\ PopCall("r", "q1")
    \/ Few /\ PopCall("l", "q1")
    \/ \E i \in 1..Len(calls) : PopReply(i)
    \/ Few /\ LRangeCall("q1", 0, -1)
    \/ \E i \in 1..Len(calls) : LRangeReply(i)
    \/ Few /\ LLenCall("q1")
    \/ \E i \in 1..Len(calls) : LLenReply(i)
    \/ Few /\ LIndexCall("q1", 0)
    \/ \E i \in 1..Len(calls) : LIndexReply(i)
    \/ Few /\ LSetCall("q1", 0, arg)
    \/ \E i \in 1..Len(calls) : LSetReply(i)
    \/ Few /\ LRemCall("q1", 0, arg)
    \/ \E i \in 1..Len(calls) : LRemReply(i)
    \/ Few /\ LTrimCall("q1", 0, 0)
    \/ \E i \in 1..Len(calls) : LTrimReply(i)
    \/ Few /\ BPopCall("r", "q1", {0})
    \/ Few /\ BPopCall("l", "q1", {0})
    \/ \E i \in 1..Len(calls) : BPopReply(i)
    \/ Few /\ ClearCall("q1")
    \/ \E i \in 1..Len(calls) : ClearReply(i)
    \/ Few /\ DisconnectCall
    \/ \E i \in 1..Len(calls) : QuitReply(i)
    \/ \E i \in 1..Len(calls) : Rejected(i)

SpecFail == Init /\ [][NextFail]_vars

(* The three helper groups on the one client: callers subscribe and           *)
(* unsubscribe while other callers use the cache, a list and publish.        *)
NextShared ==
    \/ CanCall /\ SubscribeCall("c1", "h1")
    \/ \E i \in 1..Len(calls) : SubscribeReply(i)
    \/ CanCall /\ UnsubscribeCall("c1")
    \/ \E i \in 1..Len(calls) : UnsubscribeReply(i)
    \/ SetCall("k1", arg, {})
    \/ \E i \in 1..Len(calls) : SetReply(i)
    \/ GetCall("k1")
    \/ \E i \in 1..Len(calls) : GetReply(i)
    \/ PushCall("r", "q1", arg)
    \/ \E i \in 1..Len(calls) : PushReply(i)
    \/ PublishCall("c1", "m1")
    \/ \E i \in 1..Len(calls) : PublishReply(i)
    \/ \E i \in 1..Len(calls) : Refused(i)

SpecShared == Init /\ [][NextShared]_vars

(* Clients ask the serving process for its health. *)
NextHealth ==
    \/ HealthRequest
    \/ \E r \in 1..Len(health) : DbCheckPassed(r)
    \/ \E r \in 1..Len(health) : DbCheckFailed(r)
    \/ \E r \in 1..Len(health) : PingPassed(r)
    \/ \E r \in 1..Len(health) : PingFailed(r)

SpecHealth == Init /\ [][NextHealth]_vars

(* The server process from the moment it serves until it exits. *)
NextShutdown ==
    \/ HttpConnect
    \/ HttpDisconnect
    \/ \E sig \in Signals : Signal(sig)
    \/ \E j \in 1..Len(dbHandlers) : DbHandlerClosed(j)
    \/ \E j \in 1..Len(dbHandlers) : DbHandlerFailed(j)
    \/ \E j \in 1..Len(shutdowns) : HttpClosed(j)
    \/ \E j \in 1..Len(shutdowns) : DbClosed(j)
    \/ \E j \in 1..Len(shutdowns) : QuitDone(j)
    \/ \E j \in 1..Len(shutdowns) : ShutdownFailed(j)
    \/ \E j \in 1..Len(shutdowns) : ForcedExit(j)

SpecShutdown == Init /\ [][NextShutdown]_vars

(* The shutdown of a process whose connection to the store may be held by a *)
(* blocking pop.  The 30-second timer of a shutdown that has started fires   *)
(* unless the process has exited, hence the fairness condition; nothing      *)
(* obliges the closes to settle or the HTTP connections to end.              *)
NextExit ==
    \/ NextShutdown
    \/ Running /\ Few /\ BPopCall("r", "q1", {0})
    \/ \E i \in 1..Len(calls) : Running /\ BPopReply(i)
    \/ ExtPush("q1", JNum(0))

Timers == \E j \in 1..Len(shutdowns) : ForcedExit(j)

SpecExit == Init /\ [][NextExit]_vars /\ WF_vars(Timers)

(* The shared connection: list, cache and pub/sub helpers issue their        *)
(* commands on the one client of redis.js:25.  The store answers the oldest  *)
(* outstanding command and its timers run, hence the fairness conditions;    *)
(* nothing obliges callers or other clients to act.                          *)
InitConn == Loaded /\ arg = JNull

NextConn ==
    \/ \E side \in Sides, k \in ListKeys, v \in ListVals : PushCall(side, k, v)
    \/ \E i \in 1..Len(calls) : PushReply(i)
    \/ \E side \in Sides, k \in ListKeys, t \in Timeouts : BPopCall(side, k, t)
    \/ \E i \in 1..Len(calls) : BPopReply(i)
    \/ BlockTick
    \/ \E i \in 1..Len(calls) : BPopTimeout(i)
    \/ \E k \in ListKeys, v \in ExtVals : ExtPush(k, v)
    \/ \E k \in Keys : GetCall(k)
    \/ \E i \in 1..Len(calls) : GetReply(i)
    \/ \E c \in Channels, m \in Msgs : PublishCall(c, m)
    \/ \E i \in 1..Len(calls) : PublishReply(i)

StoreAnswers ==
    \/ \E i \in 1..Len(calls) : PushReply(i)
    \/ \E i \in 1..Len(calls) : BPopReply(i)
    \/ \E i \in 1..Len(calls) : BPopTimeout(i)
    \/ \E i \in 1..Len(calls) : GetReply(i)
    \/ \E i \in 1..Len(calls) : PublishReply(i)

SpecConn ==
    InitConn /\ [][NextConn]_vars /\ WF_vars(StoreAnswers) /\ WF_vars(BlockTick)

----------------------------------------------------------------------------
(* Properties of the pub/sub registry, checked under Spec *)

SubscribeCallsOn(c) ==
    {i \in 1..Len(calls) : calls[i].op = "subscribe" /\ calls[i].key = c}
UnsubscribeCallsOn(c) ==
    {i \in 1..Len(calls) : calls[i].op = "unsubscribe" /\ calls[i].key = c}
Returned(S) == {i \in S : calls[i].pc = "done"}
Completed(S) == \A i \in S : calls[i].pc # "await"
\* transport commands issued by the calls of S
RECURSIVE SentBy(_)
SentBy(S) ==
    IF S = {} THEN 0
    ELSE LET i == CHOOSE x \in S : TRUE IN calls[i].sent + SentBy(S \ {i})

\* C1 as stated: k >= 1 subscribe calls on a channel c and no unsubscribe(c):
\* exactly one transport-level subscribe for c is issued, and once all the calls
\* have completed the handler list of c holds exactly k entries.
C1_KEntriesForKCalls ==
    \A c \in Channels :
        (SubscribeCallsOn(c) # {} /\ UnsubscribeCallsOn(c) = {}) =>
            /\ SentBy(SubscribeCallsOn(c)) = 1
            /\ Completed(SubscribeCallsOn(c)) =>
                   Len(HandlersOf(c)) = Cardinality(SubscribeCallsOn(c))

\* C1 amended: with k >= 1 subscribe calls on c and no unsubscribe(c), exactly
\* one transport-level subscribe for c is issued, and once all the calls have
\* completed the handler list of c holds one entry for each call that returned
\* without an error (duplicates kept): a call whose transport-level subscribe
\* was rejected adds no entry.
C1_OneSubscribeEntryPerReturnedCall ==
    \A c \in Channels :
        (SubscribeCallsOn(c) # {} /\ UnsubscribeCallsOn(c) = {}) =>
            /\ SentBy(SubscribeCallsOn(c)) = 1
            /\ MapHas(subscribers, c)
            /\ Completed(SubscribeCallsOn(c)) =>
                   Len(subscribers[c]) = Cardinality(Returned(SubscribeCallsOn(c)))

\* three subscribe calls with the same handler on one channel, the later ones
\* started while the first awaited the transport, all returned: three entries
C1_Witness ==
    \E c \in Channels, h \in HandlerIds :
        /\ Len(calls) = 3
        /\ \A i \in 1..3 : /\ calls[i].op = "subscribe" /\ calls[i].key = c
                           /\ calls[i].val = h /\ calls[i].pc = "done"
        /\ calls[2].overlap /\ calls[3].overlap
        /\ subscribers[c] = <<h, h, h>>

\* the handlers invoked for the j-th published message, in invocation order
InvokedFor(j) ==
    LET sel == SelectSeq(invoked, LAMBDA e : e.pub = j)
    IN  [k \in 1..Len(sel) |-> sel[k].h]

\* C2: whenever the transport delivers a message on a channel c, every handler
\* registered for c at that moment is invoked exactly once, in registration order.
C2_DispatchInRegistrationOrder ==
    \A j \in 1..Len(published) :
        published[j].emitted => InvokedFor(j) = published[j].handlers

\* C3: after unsubscribe(c) has completed on a channel that had a record, and with
\* no subscribe(c, ...) started after it, the registry holds no record for c, the
\* call has issued exactly one transport-level unsubscribe, and no message
\* published to c afterwards invokes a handler.
C3_UnsubscribeRemovesAll ==
    \A i \in 1..Len(calls) :
        ( /\ calls[i].op = "unsubscribe"
          /\ calls[i].pc # "await"
          /\ calls[i].sent > 0
          /\ ~\E j \in (i+1)..Len(calls) :
                 calls[j].op = "subscribe" /\ calls[j].key = calls[i].key )
        => /\ ~MapHas(subscribers, calls[i].key)
           /\ calls[i].sent = 1
           /\ \A e \in 1..Len(invoked) :
                  ~(invoked[e].ch = calls[i].key /\ invoked[e].pub > calls[i].mark)

\* h1 and h2 were registered on c, unsubscribe(c) returned, and a message was
\* published to c after that
C3_Witness ==
    \E c \in Channels :
        /\ Len(calls) = 3
        /\ calls[1].op = "subscribe" /\ calls[1].key = c /\ calls[1].pc = "done"
        /\ calls[2].op = "subscribe" /\ calls[2].key = c /\ calls[2].pc = "done"
        /\ calls[1].val # calls[2].val
        /\ calls[3].op = "unsubscribe" /\ calls[3].key = c /\ calls[3].pc = "done"
        /\ calls[3].sent = 1
        /\ \E j \in 1..Len(published) :
               /\ published[j].ch = c /\ j > calls[3].mark
               /\ published[j].handlers = <<>>

\* C4: in every reachable state getSubscribedChannels() is exactly the set of
\* channels that have at least one registered handler.
C4_ListedChannelsHaveHandlers ==
    getSubscribedChannels = {c \in Channels : Len(HandlersOf(c)) >= 1}

----------------------------------------------------------------------------
(* Properties of the cache helpers *)

IsCall(i, op, k) == calls[i].op = op /\ calls[i].key = k
NeverSet(k) == ~\E j \in 1..Len(calls) : IsCall(j, "set", k)
\* call g started when call g-1, a set of the same key, had returned and no
\* other call was outstanding
FollowsSet(g) ==
    /\ g > 1
    /\ calls[g].quiet
    /\ IsCall(g - 1, "set", calls[g].key)
    /\ calls[g - 1].pc = "done"

\* C8 (checked under SpecCache): get on a key that was never set returns a
\* result that differs from the result of get on a key holding a stored null
\* (after set(key, null)).
C8_MissDistinctFromStoredNull ==
    \A g1, g2 \in 1..Len(calls) :
        ( /\ calls[g1].op = "get" /\ calls[g1].pc = "done"
          /\ NeverSet(calls[g1].key)
          /\ calls[g2].op = "get" /\ calls[g2].pc = "done"
          /\ FollowsSet(g2)
          /\ calls[g2 - 1].val = JNull /\ calls[g2 - 1].t = {} )
        => calls[g1].res # calls[g2].res

\* C9 (checked under SpecRoundTrip): for every JSON value v and key k, set(k, v)
\* followed by get(k), with no other write of k in between, returns a value
\* equal to v.
C9_SetGetRoundTrip ==
    \A g \in 1..Len(calls) :
        ( /\ calls[g].op = "get" /\ calls[g].pc # "await"
          /\ FollowsSet(g) )
        => /\ calls[g].pc = "done"
           /\ calls[g].res.v = calls[g - 1].val
           /\ kv[calls[g].key].text = Stringify(calls[g - 1].val)

\* an object of two members was set and read back
C9_Witness ==
    /\ arg.t = "obj" /\ Len(arg.a) = 2 /\ arg.a[2].t = "obj"
    /\ \E g \in 1..Len(calls) :
           /\ calls[g].op = "get" /\ calls[g].pc = "done"
           /\ FollowsSet(g)
           /\ calls[g].res.v = arg

\* call g is a getTTL of the key of the set just before it, and no second
\* passed between the return of the set and the answer to the getTTL
ImmediateTtl(g) ==
    /\ calls[g].op = "getTTL" /\ calls[g].pc = "done"
    /\ FollowsSet(g)
    /\ calls[g].mark = calls[g - 1].mark

\* C10 (checked under SpecCache): set(k, v, ttl) stores k with an expiration
\* whenever a ttl argument is supplied, 0 included, so that an immediate
\* getTTL(k) is > 0 and <= ttl; set(k, v) without ttl gives getTTL(k) = -1;
\* getTTL of a key that does not exist is -2.
C10_TtlSemantics ==
    \A g \in 1..Len(calls) :
        /\ (ImmediateTtl(g) /\ calls[g - 1].t # {}) =>
               /\ calls[g].res.n > 0
               /\ calls[g].res.n <= TtlOf(calls[g - 1].t)
        /\ (ImmediateTtl(g) /\ calls[g - 1].t = {}) => calls[g].res.n = -1
        /\ (calls[g].op = "getTTL" /\ calls[g].pc = "done"
               /\ NeverSet(calls[g].key)) => calls[g].res.n = -2

----------------------------------------------------------------------------
(* Properties of the shared connection, checked under SpecConn *)

Started(i) == i <= Len(calls)
IsBPop(i) == Started(i) /\ calls[i].op = "bpop"

\* call i was issued while the store held the connection in a blocking pop of
\* timeout 0 on another key or channel
BehindEndlessPop(i) ==
    /\ Started(i)
    /\ calls[i].waiting # 0
    /\ calls[calls[i].waiting].t = {0}
    /\ calls[calls[i].waiting].key # calls[i].key

\* C5: while a brpop or blpop with timeout 0 waits on an empty list, every cache,
\* pub/sub or list operation on an unrelated key or channel issued afterwards on
\* the shared connection eventually completes.
C5_BlockingPopStarvesNobody ==
    \A i \in 1..MaxCalls :
        BehindEndlessPop(i) ~> (Started(i) /\ calls[i].pc # "await")

\* push p of this client was issued while blocking pop b waited on the empty
\* list of the same key, before its timeout
WakesUp(p, b) ==
    /\ Started(p)
    /\ calls[p].op = "push"
    /\ calls[p].waiting = b
    /\ b # 0
    /\ calls[b].key = calls[p].key

\* C6: a blocking pop on key k that was waiting on the empty list when this
\* client pushed v to k before the timeout returns the pair [k, v]: it does not
\* return the timeout signal.
C6_PushWakesBlockedPop ==
    \A p, b \in 1..Len(calls) :
        (WakesUp(p, b) /\ calls[b].pc # "await" /\ ext = 0) =>
            /\ calls[b].pc = "done"
            /\ calls[b].res = [kind |-> "pair", n |-> 0,
                               k |-> calls[p].key, v |-> calls[p].val]

\* call i is a blocking pop with a timeout > 0 that has not returned
PopWithTimeout(i) ==
    IF Started(i)
    THEN calls[i].op = "bpop" /\ TimeoutOf(i) > 0 /\ calls[i].pc = "await"
    ELSE FALSE
ListFilled(i) ==
    IF IsBPop(i) THEN lists[calls[i].key] # <<>> ELSE FALSE
\* the call returned null and no helper logged an error
ReturnedNull(i) ==
    IF Started(i)
    THEN calls[i].pc = "done" /\ calls[i].res.kind = "null" /\ errlog = 0
    ELSE FALSE

\* C7: a blocking pop with timeout t > 0 on a list that stays empty eventually
\* returns the timeout signal (null) as a normal result, with no error logged.
C7_TimeoutReturnsNull ==
    \A i \in 1..MaxCalls : PopWithTimeout(i) ~> (ListFilled(i) \/ ReturnedNull(i))

----------------------------------------------------------------------------
(* Properties of clearPattern, checked under SpecClear *)

IsClear(i) == calls[i].op = "clearPattern"
\* call s is a set that the store executed after the enumeration of clear call
\* i and before its deletion, and that created a key matching i's pattern
SetBetween(s, i) ==
    /\ calls[s].op = "set"
    /\ calls[s].pc = "done"
    /\ i \in calls[s].during
    /\ calls[s].fresh
    /\ Matches(calls[i].key, calls[s].key)
ClearReturns(i) == IsClear(i) /\ calls[i].pc = "await" /\ calls'[i].pc = "done"
NoDeleteWhenEmpty ==
    \A i \in 1..Len(calls) :
        IsClear(i) /\ calls[i].pc = "done" /\ calls[i].val = {}
            => calls[i].sent = 1 /\ calls[i].res.n = 0

\* C11 as stated: clearPattern enumerates and then deletes in two transport
\* steps; every key matching the pattern that a concurrent set created after
\* the enumeration and before the deletion exists when clearPattern returns,
\* and no DEL is sent for an empty enumeration.
C11_KeysCreatedBetweenSurvive ==
    /\ [][\A i \in 1..Len(calls) : ClearReturns(i) =>
            \A s \in 1..Len(calls) :
                SetBetween(s, i) /\ MapHas(kv, calls[s].key)
                    => MapHas(kv', calls[s].key)]_vars
    /\ []NoDeleteWhenEmpty

\* C11 amended: a key created between the enumeration and the deletion exists
\* when clearPattern returns provided it was not among the enumerated keys
\* (the deletion removes exactly the enumerated keys, also one that was
\* deleted and set again in between); no DEL is sent for an empty enumeration.
C11_KeysNotEnumeratedSurvive ==
    /\ [][\A i \in 1..Len(calls) : ClearReturns(i) =>
            /\ \A s \in 1..Len(calls) :
                  /\ SetBetween(s, i)
                  /\ MapHas(kv, calls[s].key)
                  /\ calls[s].key \notin calls[i].val
                  => MapHas(kv', calls[s].key)
            /\ calls[i].sent = 2 => DOMAIN kv' = DOMAIN kv \ calls[i].val]_vars
    /\ []NoDeleteWhenEmpty

C11_Witness ==
    \E i, s \in 1..Len(calls) :
        /\ IsClear(i) /\ calls[i].pc = "done" /\ calls[i].sent = 2
        /\ SetBetween(s, i)
        /\ calls[s].key \notin calls[i].val
        /\ MapHas(kv, calls[s].key)
----------------------------------------------------------------------------
(* Properties of del, mget and mset, checked under SpecMulti *)

NoKeys(c) == c.op \in {"del", "mget"} /\ c.val = <<>>
Starts(c) == Len(calls') = Len(calls) + 1 /\ c = calls'[Len(calls')]

\* C16: del with no keys returns 0 and mget with no keys returns the empty
\* sequence, and neither sends a command: the connection's outstanding
\* commands, its status and subscriptions and the store are left as they were.
C16_NoKeysNoCommand ==
    /\ [][\A c \in {calls'[x] : x \in 1..Len(calls')} : Starts(c) /\ NoKeys(c) =>
            /\ c.pc = "done" /\ c.sent = 0
            /\ c.op = "del" => c.res = [kind |-> "int", n |-> 0]
            /\ c.op = "mget" => c.res.kind = "values" /\ c.res.vs = <<>>
            /\ UNCHANGED <<wire, kv, lists, serverSubs, status, errlog>>]_vars
    /\ [](\A x \in 1..Len(wire) : ~NoKeys(calls[wire[x]]))

C16_Witness ==
    \E i, j \in 1..Len(calls) :
        /\ calls[i].op = "del" /\ NoKeys(calls[i]) /\ calls[i].pc = "done"
        /\ calls[j].op = "mget" /\ NoKeys(calls[j]) /\ calls[j].pc = "done"

\* the value a key holds at the store, decoded; null for an absent key
Decoded(k) == IF MapHas(kv, k) THEN Parse(kv[k].text).v ELSE JNull
MGetReturns(i) ==
    calls[i].op = "mget" /\ calls[i].pc = "await" /\ calls'[i].pc = "done"
\* call g is an mget that followed the mset m with no write in between
ReadsBack(g, m) ==
    /\ m < g
    /\ calls[m].op = "mset" /\ calls[m].pc = "done"
    /\ calls[g].op = "mget" /\ calls[g].pc = "done"
    /\ \A w \in (m + 1)..(g - 1) : calls[w].op = "mget"
ValueIn(o, k) == o.vs[CHOOSE j \in 1..Len(o.ks) : o.ks[j] = k]

\* C17: mget(k1..kn) returns n elements, the i-th being the decoded value the
\* store holds under ki when MGET runs, null for an absent key; an mget that
\* follows mset(o) with no write in between returns o's value for every key of
\* o, in the order of its own arguments.
C17_MGetAlignedWithKeys ==
    /\ [][\A i \in 1..Len(calls) : MGetReturns(i) =>
            /\ Len(calls'[i].res.vs) = Len(calls[i].val)
            /\ \A j \in 1..Len(calls[i].val) :
                  calls'[i].res.vs[j] = Decoded(calls[i].val[j])]_vars
    /\ [](\A g, m \in 1..Len(calls) : ReadsBack(g, m) =>
            /\ Len(calls[g].res.vs) = Len(calls[g].val)
            /\ \A j \in 1..Len(calls[g].val) :
                  calls[g].val[j] \in Range(calls[m].val.ks)
                      => calls[g].res.vs[j] = ValueIn(calls[m].val, calls[g].val[j]))

C17_Witness ==
    \E g, m \in 1..Len(calls) :
        /\ ReadsBack(g, m)
        /\ Len(calls[m].val.ks) = 2
        /\ calls[g].val = calls[m].val.ks
        /\ calls[m].val.vs = <<JNum(1), JNum(0)>>
        /\ calls[g].res.vs = calls[m].val.vs
----------------------------------------------------------------------------
(* Properties of a list used as a queue, checked under SpecQueue *)

\* the values a first-in first-out queue for list k holds after the first n
\* calls, in the order the connection carried them to the store
RECURSIVE QueueAfter(_, _)
QueueAfter(n, k) ==
    IF n = 0 THEN <<>>
    ELSE LET q == QueueAfter(n - 1, k)
         IN  IF calls[n].key # k THEN q
             ELSE IF calls[n].cmd = "rpush" THEN Append(q, calls[n].val)
             ELSE IF q = <<>> THEN q ELSE Tail(q)
\* what a pop returned, as its caller sees it
Popped(i) == IF calls[i].res.kind = "null" THEN JNull ELSE calls[i].res.v
IsPop(i) == calls[i].op = "pop"

\* C20: with rpush as the producer and lpop as the consumers, every pop that
\* returned got the oldest value pushed and not yet popped, equal to the value
\* pushed (so values come out in push order, each to one pop), and a pop on an
\* empty list returned null and left the list as it was.
C20_QueueDeliversInOrderOnce ==
    /\ [](\A i \in 1..Len(calls) : IsPop(i) /\ calls[i].pc # "await" =>
            /\ calls[i].pc = "done"
            /\ Popped(i) = IF QueueAfter(i - 1, calls[i].key) = <<>> THEN JNull
                           ELSE Head(QueueAfter(i - 1, calls[i].key)))
    /\ [][\A i \in 1..Len(calls) :
            IsPop(i) /\ calls[i].pc = "await" /\ calls'[i].pc # "await"
                     /\ lists[calls[i].key] = <<>>
                => lists' = lists /\ calls'[i].res.kind = "null"]_vars

C20_Witness ==
    \E a, b, i \in 1..Len(calls) :
        /\ a < b /\ b < i
        /\ calls[a].cmd = "rpush" /\ calls[b].cmd = "rpush" /\ IsPop(i)
        /\ calls[a].key = calls[i].key /\ calls[b].key = calls[i].key
        /\ calls[a].val # calls[b].val
        /\ calls[i].pc = "done"
        /\ Popped(i) = calls[a].val
        /\ lists[calls[i].key] = <<Stringify(calls[b].val)>>
----------------------------------------------------------------------------
(* The registry under interleaved subscribe and unsubscribe, checked under Spec *)

CallsOn(c) == SubscribeCallsOn(c) \cup UnsubscribeCallsOn(c)
TransportFailed(S) == \E i \in S : calls[i].rejected > 0
ThrewOwnError(S) == \E i \in S : calls[i].pc = "threw"
RegistryAgrees(c) == MapHas(subscribers, c) <=> c \in serverSubs

\* C18: whatever the interleaving of subscribe(c, h) and unsubscribe(c), and
\* in particular when unsubscribe(c) runs while a subscribe(c, h) awaits its
\* transport subscribe: no call fails with an error that the transport did not
\* cause, and once the calls have completed the registry has a record for c
\* exactly when the connection is subscribed to c.
C18_RegistrySafeUnderInterleaving ==
    \A c \in Channels :
        ~TransportFailed(CallsOn(c)) =>
            /\ ~ThrewOwnError(CallsOn(c))
            /\ Completed(CallsOn(c)) => RegistryAgrees(c)
----------------------------------------------------------------------------
(* Properties of subscribeMultiple, checked under SpecMultiple *)

IsMultiple(i) == calls[i].op = "subscribeMultiple"
Registered(c, h) == MapHas(subscribers, c) /\ h \in Range(subscribers[c])
InWire(i) == \E x \in 1..Len(wire) : wire[x] = i
FailsNow(i) == IsMultiple(i) /\ calls[i].pc = "await" /\ calls'[i].pc = "failed"

\* C19: subscribeMultiple(chs, h) subscribes the channels one after another in
\* list order (while it awaits the subscribe of the channel at position at,
\* the earlier channels have h registered and no later channel has been asked
\* for; when it returns, every channel has h registered).  When the subscribe
\* of the channel at position i fails, the error reaches the caller, the
\* earlier channels stay in the registry with h, no subscribe is sent for a
\* later channel, and the failure undoes nothing: the registry and the
\* connection's subscriptions are as they were.
C19_SequentialNoRollback ==
    /\ [](\A i \in 1..Len(calls) : IsMultiple(i) =>
            /\ calls[i].sent <= calls[i].at
            /\ \A j \in 1..Len(calls[i].chs) :
                  j < calls[i].at => Registered(calls[i].chs[j], calls[i].val)
            /\ calls[i].pc = "await" =>
                  InWire(i) /\ calls[i].key = calls[i].chs[calls[i].at]
            /\ calls[i].pc = "done" => calls[i].at = Len(calls[i].chs) + 1
            /\ calls[i].rejected > 0 =>
                  calls[i].pc = "failed" /\ ~InWire(i)
                      /\ calls[i].at <= Len(calls[i].chs))
    /\ [][\A i \in 1..Len(calls) :
            /\ FailsNow(i) =>
                  /\ UNCHANGED <<subscribers, serverSubs>>
                  /\ wire' = Tail(wire)
                  /\ calls'[i].sent = calls[i].sent /\ calls'[i].at = calls[i].at
                  /\ errlog' > errlog
            /\ IsMultiple(i) /\ calls[i].pc # "await" => calls'[i] = calls[i]
            /\ IsMultiple(i) /\ calls'[i].sent > calls[i].sent =>
                  calls'[i].sent = calls[i].sent + 1 /\ calls'[i].at > calls[i].at]_vars

\* the subscribe of the second of three channels failed: the first is in the
\* registry with the handler and subscribed, the third was never asked for
C19_Witness ==
    \E i \in 1..Len(calls) :
        /\ IsMultiple(i) /\ calls[i].pc = "failed"
        /\ calls[i].chs = <<"c1", "c2", "c3">> /\ calls[i].at = 2
        /\ calls[i].sent = 2
        /\ Registered("c1", calls[i].val) /\ "c1" \in serverSubs
        /\ ~MapHas(subscribers, "c3") /\ "c3" \notin serverSubs
----------------------------------------------------------------------------
(* Properties of the connection, checked under SpecLink *)

IsProbe(i) == IF Started(i) THEN calls[i].op = "healthCheck" ELSE FALSE
ProbeStartedDown(i) == IF IsProbe(i) THEN calls[i].down ELSE FALSE
ProbeAnsweredFalse(i) ==
    IF IsProbe(i) THEN calls[i].pc = "done" /\ calls[i].res.n = 0 ELSE FALSE

\* C13: a health probe started while the connection is down eventually
\* returns false (it is not kept waiting until the connection is back, and is
\* never queued without limit).
C13_ProbeFailsWhileDown ==
    \A i \in 1..MaxCalls : ProbeStartedDown(i) ~> ProbeAnsweredFalse(i)

CappedDelay(n) == IF 50 * n <= 2000 THEN 50 * n ELSE 2000

\* C15: retryStrategy(n) is min(50 * n, 2000) for every attempt number n >= 1,
\* a number (never a stop signal) that does not decrease with n and does not
\* exceed 2000; the reconnecting client waits that delay before attempt n and,
\* never being told to stop, does not give up: a further attempt is always
\* ahead.
C15_RetryDelayCappedNeverStops ==
    /\ [](\A n \in 1..MaxAttempts :
            /\ retryStrategy(n) = CappedDelay(n)
            /\ IsDelay(retryStrategy(n))
            /\ retryStrategy(n) <= 2000
            /\ retryStrategy(n) <= retryStrategy(n + 1))
    /\ [](status # "end")
    /\ [](status = "reconnecting" =>
            /\ attempt >= 1
            /\ delay = CappedDelay(attempt)
            /\ attempt < MaxAttempts => ENABLED ReconnectFailed)
    /\ [][attempt' > attempt => delay' >= delay /\ status' = "reconnecting"]_vars

\* the forty-first attempt in a row: the delay stays at the cap reached at the
\* fortieth
C15_Witness ==
    /\ status = "reconnecting"
    /\ attempt = 41
    /\ delay = 2000
    /\ retryStrategy(39) = 1950
----------------------------------------------------------------------------
(* Properties of the shutdown, checked under SpecShutdown *)

Exited == exitCode # -1

\* C14: on every shutdown path that SIGTERM or SIGINT starts, the close of the
\* Redis connection is issued after the HTTP server stopped accepting
\* connections and before the process exits: the process has not exited
\* unless the close was issued, and it was issued with the server stopped.
C14_RedisClosedBeforeExit ==
    /\ Exited => quitIssued > 0
    /\ quitIssued > 0 => ~listening
----------------------------------------------------------------------------
(* Properties of the helpers' error handling, checked under SpecFail *)

InScope(i) == calls[i].op # "healthCheck"
TransportFailedFor(i) == calls[i].rejected > 0
FailedToCaller(i) ==
    /\ calls[i].pc = "failed"
    /\ calls[i].res = NoRes
    /\ \A x \in 1..Len(wire) : wire[x] # i
\* the step in which a command of call i fails logs and ends the call in error
LogsThenFails(i) ==
    calls'[i].rejected > calls[i].rejected =>
        /\ errlog' > errlog
        /\ calls'[i].pc = "failed"
        /\ calls'[i].sent = calls[i].sent
\* a call whose command failed sends nothing more
SendsNoMore(i) == TransportFailedFor(i) => calls'[i].sent = calls[i].sent

\* C12: for every operation of cacheHelpers, pubSubHelpers and listHelpers and
\* for disconnect, a failure of the transport command is logged and the
\* operation then fails to its caller with an error: it has no return value,
\* and from the failure on it issues no transport command.
\* (No call has started in the initial state; every later state is the end
\* of a step.)
C12_TransportFailureLoggedAndRaised ==
    [][/\ \A i \in 1..Len(calls) :
             InScope(i) => LogsThenFails(i) /\ SendsNoMore(i)
       /\ \A i \in 1..Len(calls') :
             (InScope(i) /\ TransportFailedFor(i) => FailedToCaller(i))']_vars

\* the SUBSCRIBE of the first channel of a list failed with the second channel
\* left, and the command of a cache or list operation or of disconnect failed
C12_Witness ==
    /\ \E i \in 1..Len(calls) :
          /\ calls[i].op = "subscribeMultiple"
          /\ TransportFailedFor(i)
          /\ calls[i].at < Len(calls[i].chs)
    /\ \E i \in 1..Len(calls) :
          /\ calls[i].op \notin {"subscribe", "unsubscribe", "subscribeMultiple"}
          /\ TransportFailedFor(i)
----------------------------------------------------------------------------
(* The registry and the connection's subscriptions, checked under SpecRegistry *)

\* no subscribe or unsubscribe awaits the transport
Quiescent ==
    \A i \in 1..Len(calls) :
        calls[i].op \in {"subscribe", "unsubscribe"} => calls[i].pc # "await"

\* C21: in every state in which no subscribe and no unsubscribe is in flight, a
\* channel has a record in the registry exactly when the connection is
\* subscribed to it, also after a subscribe or an unsubscribe whose transport
\* command failed.
C21_RecordIffSubscribedWhenQuiescent ==
    Quiescent =>
        \A c \in Channels : MapHas(subscribers, c) <=> c \in serverSubs

PositionOf(l, h) == CHOOSE x \in 1..Len(l) : l[x] = h
\* calls i and j are the only calls on their channel: two subscribes with
\* different handlers, i started first, both returned
TwoSubscribes(i, j) ==
    /\ i < j
    /\ calls[i].op = "subscribe" /\ calls[j].op = "subscribe"
    /\ calls[i].key = calls[j].key
    /\ CallsOn(calls[i].key) = {i, j}
    /\ calls[i].val # calls[j].val
    /\ calls[i].pc = "done" /\ calls[j].pc = "done"

\* C22: the handler list of a channel holds the handlers in the order in which
\* their subscribe calls were started, also when the second call was made while
\* the first one awaited the transport: the first call's handler comes first.
C22_HandlersInCallOrder ==
    \A i, j \in 1..Len(calls) :
        TwoSubscribes(i, j) =>
            /\ MapHas(subscribers, calls[i].key)
            /\ calls[i].val \in Range(subscribers[calls[i].key])
            /\ calls[j].val \in Range(subscribers[calls[i].key])
            /\ PositionOf(subscribers[calls[i].key], calls[i].val)
                  < PositionOf(subscribers[calls[i].key], calls[j].val)
----------------------------------------------------------------------------
(* Properties of the shared connection in subscriber mode, checked under *)
(* SpecShared                                                             *)

SharedOps == {"set", "get", "push", "publish"}
\* call i ends in this step, with the connection subscribed to a channel
EndsWhileSubscribed(i) ==
    /\ calls[i].op \in SharedOps
    /\ SubscriberMode
    /\ calls[i].pc = "await"
    /\ calls'[i].pc # "await"

\* C23: once pubSubHelpers.subscribe has put the shared connection into the
\* subscribed state, the cache operations, the list operations and publish
\* issued through the same client are still accepted and complete normally:
\* such an operation that ends while a channel subscription is active returns.
C23_OperationsCompleteWhileSubscribed ==
    [][\A i \in 1..Len(calls) : EndsWhileSubscribed(i) => calls'[i].pc = "done"]_vars
----------------------------------------------------------------------------
(* Properties of the /health endpoint, checked under SpecHealth *)

----------------------------------------------------------------------------
(* Properties of gracefulShutdown, checked under SpecExit *)

ShutdownTriggered == shutdowns # <<>>
\* run j of gracefulShutdown ends the process in this step
ExitsBy(j) == shutdowns[j].pc # "exited" /\ shutdowns'[j].pc = "exited"
\* the HTTP server and the database had closed and QUIT is answered now
ClosesSucceeded(j) ==
    /\ shutdowns[j].pc = "quit"
    /\ calls'[shutdowns[j].call].pc = "done"
\* QUIT of run j waits behind a blocking pop that holds the connection
QuitBehindBlockingPop(j) ==
    /\ shutdowns[j].call # 0
    /\ calls[shutdowns[j].call].pc = "await"
    /\ Blocked

====
